---- MODULE Spec2Model ----
(***************************************************************************)
(* chatgpt-exporter: the conversation backup engine                        *)
(* (BackupService.backup), the file materialization subsystem              *)
(* (runFileDownloads / downloadFiles) and the backup command that chains   *)
(* them against one output directory.                                      *)
(*                                                                         *)
(* JavaScript numbers are kept in fixed point, three decimals: the number  *)
(* x is the integer x * 1000 (Fx).  Node runs one thread: the code between *)
(* two awaits is one step, so the scheduling loop is suspended (pc "sleep" *)
(* or "race") whenever a worker completes.                                 *)
(***************************************************************************)
EXTENDS Integers, Sequences, FiniteSets, TLC

\* ------------------------------------------------------------------ bounds
MaxConvs == 2
MaxFiles == 2
MaxConcurrency == 2
MaxRuns == 2

ConvIds == 1..MaxConvs
FileIds == 1..MaxFiles

\* ------------------------------------------------------------ JSON values
Fx(x) == x * 1000

Null == [kind |-> "null"]
NaN == [kind |-> "NaN"]
Num(n) == [kind |-> "number", n |-> n]
\* The date string "1970-01-01T00:MM:SS.mmmZ", the empty string, and a string
\* Date cannot parse.
IsoString(m, s, ms) == [kind |-> "string", form |-> "iso", min |-> m, sec |-> s, ms |-> ms]
EmptyString == [kind |-> "string", form |-> "empty", min |-> 0, sec |-> 0, ms |-> 0]
InvalidDateString == [kind |-> "string", form |-> "invalid", min |-> 0, sec |-> 0, ms |-> 0]

NoFile == [kind |-> "nofile"]
Absent == [kind |-> "absent"]
None == [kind |-> "none"]

\* new Date(text).getTime(): milliseconds since the epoch, NaN for an
\* unparseable string.
DateGetTime(str) ==
  IF str.form = "iso"
    THEN Num(Fx(((str.min * 60) + str.sec) * 1000 + str.ms))
    ELSE NaN

\* The division left out.
DivideBy1000Omitted(x) == x

\* x / 1000 on a JavaScript number.
DivideBy1000(x) == IF x.kind = "number" THEN Num(x.n \div 1000) ELSE x

\* JavaScript truthiness of a string | number | null.
Truthy(v) ==
  CASE v.kind = "null" -> FALSE
    [] v.kind = "NaN" -> FALSE
    [] v.kind = "number" -> v.n # 0
    [] v.kind = "string" -> v.form # "empty"

\* a >= b on two JavaScript numbers (false when either is NaN).
GreaterOrEqual(a, b) == a.kind = "number" /\ b.kind = "number" /\ a.n >= b.n

\* ------------------------------------------------------------------ state
VARIABLES
  options,            \* the command's options, fixed for a behaviour
  serverList,         \* the remote listing: a sequence of ConversationItem
  serverDetail,       \* the remote detail of each conversation
  conversationFiles,  \* disk: conversations/<id>.json
  indexFile,          \* disk: conversations/index.json
  metadataFile,       \* disk: metadata.json
  filesDir,           \* disk: files/<fileId>/ holding a file
  pc,                 \* where the running invocation is
  runs,               \* invocations started so far
  conversations, downloadQueue, inProgress, rejected,
  downloaded, skipped, failed, completed, errors,
  result,             \* the BackupResult of the last backup() that returned
  detailRequests,     \* detail requests the server received in this run
  allRefs, skipFileIds, skippedKnown,
  refs, queue, fileInProgress,
  fileDownloaded, fileSkipped, fileFailed, fileCompleted, failedFileIds,
  fileResult,         \* the FileDownloadResult of the last downloadFiles()
  fileRequests,       \* download-URL requests the server received in this run
  everFailed,         \* history: file ids that failed in some run so far
  retryOpts,          \* withRetry: opts (maxRetries, baseDelay, maxDelay)
  attempt,            \* withRetry: the loop index
  lastError,          \* withRetry: the error caught last
  retryPc,            \* withRetry: "call", "sleeping", "returned", "thrown"
  thrown,             \* withRetry: the error it threw to its caller
  fnCalls,            \* invocations of fn so far
  sleeps,             \* delays withRetry has started
  calc,               \* the last calculateDelay: its argument and its values
  onRetryCalls,       \* calls of opts.onRetry so far, and the last one's arguments
  detail,             \* extractFileReferences: detail.mapping, its nodes in order
  extracted,          \* extractFileReferences: what it returned, None before
  outputTree,         \* scanAllConversations: conversations/ and projects/*/conversations/
  scanned,            \* scanAllConversations: what it returned, None before
  dlRef,              \* processOne(ref) of downloadFiles: the reference
  fileDir,            \* disk: files/<ref.fileId>, its directories and regular files
  dlPc,               \* processOne: "check", "resolve", "fetch", "mkdir", "write", "done"
  meta,               \* processOne: the resolve response, None before
  buffer,             \* processOne: whether fetchRaw returned the bytes
  stats,              \* downloadFiles: downloaded, skipped, failed
  dlFailedFileIds,    \* downloadFiles: failedFileIds
  requests,           \* resolve and fetch requests issued in this run
  onErrorCalls,       \* calls of options.onError in this run
  written,            \* the path of the file written in this run, None if none
  dlRuns,             \* runs of downloadFiles so far, and whether one downloaded the file
  stepAttempt,        \* processOne: attempt of the step's request under withRetry
  listOptions,        \* fetchAllConversations: limit and delay
  offset,             \* fetchAllConversations: offset
  total,              \* fetchAllConversations: total
  fetched,            \* fetchAllConversations: fetched
  page,               \* fetchAllConversations: response.items not yet yielded
  listPc,             \* fetchAllConversations: "test", "fetch", "yield", "sleep", "returned", "threw"
  listed,             \* listConversations: conversations
  listRequests,       \* the offsets requested, in order
  listSleeps,         \* the delays slept, in order
  listResponses,      \* fetchAllConversations: total and number of items of each response
  lister,             \* which lister of api/pagination is running
  cursor,             \* fetchAllProjects, fetchProjectConversations: cursor
  responseCursor,     \* fetchProjectConversations: response.cursor while the items are yielded
  cursorRequests,     \* the cursor parameters of the requests sent, in order
  returnedCursors     \* the cursors of the responses received, in order

backupLocals == <<conversations, downloadQueue, inProgress, rejected,
                  downloaded, skipped, failed, completed, errors>>
disk == <<conversationFiles, indexFile, metadataFile, filesDir>>
environment == <<options, serverList, serverDetail>>
fileLocals == <<allRefs, skipFileIds, skippedKnown, refs, queue, fileInProgress,
                fileDownloaded, fileSkipped, fileFailed, fileCompleted,
                failedFileIds, fileResult, fileRequests, everFailed>>
backupState == <<backupLocals, result, detailRequests>>
retryVars == <<retryOpts, attempt, lastError, retryPc, thrown, fnCalls, sleeps,
               calc, onRetryCalls>>
\* The state of the functions that are exercised on their own.
extractVars == <<detail, extracted>>
scanVars == <<outputTree, scanned>>
downloadVars == <<dlRef, fileDir, dlPc, meta, buffer, stats, dlFailedFileIds,
                  requests, onErrorCalls, written, dlRuns, stepAttempt>>
cursorVars == <<lister, cursor, responseCursor, cursorRequests, returnedCursors>>
listVars == <<listOptions, offset, total, fetched, page, listPc, listed,
              listRequests, listSleeps, listResponses, cursorVars>>
unitVars == <<retryVars, extractVars, scanVars, downloadVars, listVars>>
vars == <<environment, disk, pc, runs, backupState, fileLocals, unitVars>>

\* ------------------------------------------------- StorageService (reads)
Corrupt == [kind |-> "corrupt"]
Detail(d) == [kind |-> "detail", update_time |-> d.update_time, files |-> d.files]
\* index.json as saveIndex writes it: the summaries of the listing.
Index(items) == [kind |-> "index", items |-> items]

\* The stored file looked up where it is not: every read fails.
getExistingConversationUpdateTimeWrongPath(id) == Null

\* data.update_time ?? null; null when the file is missing or not JSON.
getExistingConversationUpdateTime(id) ==
  IF conversationFiles[id].kind = "detail"
    THEN conversationFiles[id].update_time
    ELSE Null

\* ------------------------------------------- BackupService.backup: the diff
convUpdateTime(conv) ==
  IF conv.update_time.kind = "number"
    THEN conv.update_time
    ELSE IF Truthy(conv.update_time)
      THEN DivideBy1000(DateGetTime(conv.update_time))
      ELSE Null

\* > in place of >=.
ShouldSkipStrict(existingUpdateTime, convTime) ==
  /\ existingUpdateTime.kind # "null"
  /\ convTime.kind # "null"
  /\ existingUpdateTime.kind = "number"
  /\ convTime.kind = "number"
  /\ existingUpdateTime.n > convTime.n

\* A conversation without a local update time counts as up to date.
ShouldSkipUnknownLocal(existingUpdateTime, convTime) ==
  /\ convTime.kind # "null"
  /\ \/ existingUpdateTime.kind = "null"
     \/ GreaterOrEqual(existingUpdateTime, convTime)

ShouldSkip(existingUpdateTime, convTime) ==
  /\ existingUpdateTime.kind # "null"
  /\ convTime.kind # "null"
  /\ GreaterOrEqual(existingUpdateTime, convTime)

IsSkipped(conv) ==
  /\ options.incremental
  /\ ShouldSkip(getExistingConversationUpdateTime(conv.id), convUpdateTime(conv))

\* <= in place of <.
HasCapacityInclusive(size, concurrency) == size <= concurrency

\* inProgress.size < concurrency
HasCapacity(size, concurrency) == size < concurrency

\* The loop ends with the queue, whatever is in flight.
LoopExitsQueueOnly(queueLength, size) == ~(queueLength > 0)

\* while (downloadQueue.length > 0 || inProgress.size > 0) is left; the same
\* test guards the loop of downloadFiles.
LoopExits(queueLength, size) == ~(queueLength > 0 \/ size > 0)

\* The last item is taken, as by pop().
ShiftFromEnd(q) == [item |-> q[Len(q)], rest |-> SubSeq(q, 1, Len(q) - 1)]

\* downloadQueue.shift(): the first item, and the queue without it.
Shift(q) == [item |-> Head(q), rest |-> Tail(q)]

\* The delay is taken after every dequeue, the last one included.
DelayAfterDequeueAlways(remaining, delay) == delay > 0

\* downloadQueue.length > 0 && delay > 0, after the shift; the same test
\* follows queue.shift() in downloadFiles.
DelayAfterDequeue(remaining, delay) == remaining > 0 /\ delay > 0

\* What one processOne(conv) can meet: the detail request fails ("network",
\* after the retries), is answered 401 or 403 ("auth": an AuthenticationError,
\* not retried), or its response does not validate ("validation"),
\* saveConversation fails leaving the old file ("storage") or a truncated one
\* ("storage_partial"), or, when verbose, the "Downloaded" log line fails
\* ("log").
WorkerOutcomes ==
  {"ok", "network", "auth", "validation", "storage", "storage_partial"}
    \cup (IF options.verbose THEN {"log"} ELSE {})

\* -------------------------------------------------- BackupService.backup
\* initialize, the "Starting backup..." log line, the listing and saveIndex.
BackupStart ==
  /\ pc = "start"
  /\ conversations' = serverList
  /\ indexFile' = Index(serverList)
  /\ downloadQueue' = <<>>
  /\ inProgress' = {}
  /\ rejected' = {}
  /\ downloaded' = 0
  /\ skipped' = 0
  /\ failed' = 0
  /\ completed' = 0
  /\ errors' = <<>>
  /\ detailRequests' = [c \in ConvIds |-> 0]
  /\ result' = None
  /\ pc' = "diff"
  /\ UNCHANGED <<unitVars, environment, conversationFiles, metadataFile, filesDir, runs, fileLocals>>

\* The summaries listed before the failure are saved as the index.
IndexAfterFailedListingPartial(index, listedSoFar) == Index(listedSoFar)

\* conversations/index.json after a listing that threw: saveIndex, which
\* follows the listing, is not reached.
IndexAfterFailedListing(index, listedSoFar) == index

\* The listing throws (authentication, network, validation) after the
\* summaries listedSoFar, or the project is not found: backup() rejects.
BackupStartFails(listedSoFar) ==
  /\ pc = "start"
  /\ indexFile' = IndexAfterFailedListing(indexFile, listedSoFar)
  /\ pc' = "aborted"
  /\ UNCHANGED <<unitVars, environment, conversationFiles, metadataFile, filesDir, runs,
                 backupState, fileLocals>>

\* The loop over the listing that fills toDownload, then the queue's copy.
Diff ==
  /\ pc = "diff"
  /\ downloadQueue' = SelectSeq(conversations, LAMBDA conv : ~IsSkipped(conv))
  /\ skipped' = Len(conversations) - Len(downloadQueue')
  /\ completed' = skipped'
  /\ pc' = "fill"
  /\ UNCHANGED <<unitVars, environment, disk, runs, conversations, inProgress, rejected,
                 downloaded, failed, errors, result, detailRequests, fileLocals>>

\* One pass of the inner while: shift the queue, start processOne (which
\* issues the detail request at once), then sleep if more is queued.
StartWorker ==
  /\ pc = "fill"
  /\ HasCapacity(Cardinality(inProgress), options.concurrency)
  /\ downloadQueue # <<>>
  /\ LET conv == Shift(downloadQueue).item IN
       /\ inProgress' = inProgress \cup {conv.id}
       /\ detailRequests' = [detailRequests EXCEPT ![conv.id] = @ + 1]
  /\ downloadQueue' = Shift(downloadQueue).rest
  /\ pc' = IF DelayAfterDequeue(Len(downloadQueue'), options.delay) THEN "sleep" ELSE "fill"
  /\ UNCHANGED <<unitVars, environment, disk, runs, conversations, rejected,
                 downloaded, skipped, failed, completed, errors, result, fileLocals>>

SleepDone ==
  /\ pc = "sleep"
  /\ pc' = "fill"
  /\ UNCHANGED <<unitVars, environment, disk, runs, backupState, fileLocals>>

\* await Promise.race(inProgress): a promise that already rejected settles
\* the race at once.
AwaitRace ==
  /\ pc = "fill"
  /\ ~(HasCapacity(Cardinality(inProgress), options.concurrency) /\ downloadQueue # <<>>)
  /\ inProgress # {}
  /\ pc' = IF rejected # {} THEN "aborted" ELSE "race"
  /\ UNCHANGED <<unitVars, environment, disk, runs, backupState, fileLocals>>

\* The file is opened for writing before the detail is downloaded.
AfterFailedDownloadTruncated(file) == Corrupt

\* conversations/<id>.json after downloadConversation threw: saveConversation,
\* which follows it in the try block, is not reached.
AfterFailedDownload(file) == file

\* processOne(conv) runs to its end; logOk is whether the "Failed" log line
\* in the catch block could be appended.  When it could not, the promise
\* rejects: its then-callback never removes it from inProgress.
WorkerFinish(id, outcome, logOk) ==
  /\ pc \in {"sleep", "race"}
  /\ id \in inProgress \ rejected
  /\ outcome \in WorkerOutcomes
  /\ outcome = "ok" => logOk
  /\ conversationFiles' =
       CASE outcome \in {"ok", "log"} ->
              [conversationFiles EXCEPT ![id] = Detail(serverDetail[id])]
         [] outcome = "storage_partial" -> [conversationFiles EXCEPT ![id] = Corrupt]
         [] outcome \in {"network", "auth", "validation"} ->
              [conversationFiles EXCEPT ![id] = AfterFailedDownload(@)]
         [] OTHER -> conversationFiles
  /\ downloaded' = IF outcome \in {"ok", "log"} THEN downloaded + 1 ELSE downloaded
  /\ errors' = IF outcome # "ok"
                 THEN Append(errors, [conversationId |-> id, error |-> outcome])
                 ELSE errors
  /\ failed' = IF outcome # "ok" THEN failed + 1 ELSE failed
  /\ completed' = completed + 1
  /\ IF logOk
       THEN /\ inProgress' = inProgress \ {id}
            /\ rejected' = rejected
            /\ pc' = IF pc = "race" THEN "fill" ELSE pc
       ELSE /\ inProgress' = inProgress
            /\ rejected' = rejected \cup {id}
            /\ pc' = IF pc = "race" THEN "aborted" ELSE pc
  /\ UNCHANGED <<unitVars, environment, indexFile, metadataFile, filesDir, runs,
                 conversations, downloadQueue, skipped, result, detailRequests, fileLocals>>

\* saveMetadata rewrites metadata.json with the run's record alone
\* (timestamp, counts, errors: no failedFiles key), then the result.
BackupReturn ==
  /\ pc = "fill"
  /\ LoopExits(Len(downloadQueue), Cardinality(inProgress))
  /\ metadataFile' = [kind |-> "metadata", failedFiles |-> Absent]
  /\ result' = [kind |-> "result",
                totalConversations |-> Len(conversations),
                downloaded |-> downloaded,
                skipped |-> skipped,
                failed |-> failed,
                errors |-> errors]
  /\ pc' = "returned"
  /\ UNCHANGED <<unitVars, environment, conversationFiles, indexFile, filesDir, runs,
                 backupLocals, detailRequests, fileLocals>>

\* saveMetadata throws (metadata.json as it was), or the closing log line
\* does after metadata.json was rewritten: backup() rejects.
BackupReturnFails(metadataWritten) ==
  /\ pc = "fill"
  /\ LoopExits(Len(downloadQueue), Cardinality(inProgress))
  /\ metadataFile' = IF metadataWritten
                       THEN [kind |-> "metadata", failedFiles |-> Absent]
                       ELSE metadataFile
  /\ pc' = "aborted"
  /\ UNCHANGED <<unitVars, environment, conversationFiles, indexFile, filesDir, runs,
                 backupState, fileLocals>>

\* The process is interrupted while backup() runs: nothing more is done, and
\* a conversation file that was being written may be left truncated.
Interrupt(truncated) ==
  /\ pc \in {"diff", "fill", "sleep", "race"}
  /\ truncated \subseteq inProgress \ rejected
  /\ conversationFiles' = [c \in ConvIds |->
       IF c \in truncated THEN Corrupt ELSE conversationFiles[c]]
  /\ pc' = "interrupted"
  /\ UNCHANGED <<unitVars, environment, indexFile, metadataFile, filesDir, runs,
                 backupState, fileLocals>>

\* The caller runs the engine again on the same output directory once a run
\* has returned, has thrown or was interrupted.
BackupAgain ==
  /\ pc \in {"returned", "aborted", "interrupted"}
  /\ runs < MaxRuns
  /\ runs' = runs + 1
  /\ pc' = "start"
  /\ UNCHANGED <<unitVars, environment, disk, backupState, fileLocals>>

\* -------------------------------------------------------- file-service
Range(seq) == {seq[i] : i \in 1..Len(seq)}

RECURSIVE SortedSeq(_)
SortedSeq(S) ==
  IF S = {} THEN <<>>
  ELSE LET m == CHOOSE x \in S : \A y \in S : x <= y
       IN <<m>> \o SortedSeq(S \ {m})

\* Array.from(new Set(list)): first occurrences, in order.
RECURSIVE Dedup(_)
Dedup(list) ==
  IF list = <<>> THEN <<>>
  ELSE LET front == Dedup(SubSeq(list, 1, Len(list) - 1))
           last == list[Len(list)]
       IN IF last \in Range(front) THEN front ELSE Append(front, last)

\* The file ids a stored conversation references; a file that is missing or
\* cannot be parsed gives none.
extractFileReferences(file) ==
  IF file.kind = "detail" THEN SortedSeq(file.files) ELSE <<>>

RECURSIVE ScanFrom(_)
ScanFrom(c) ==
  IF c > MaxConvs THEN <<>>
  ELSE extractFileReferences(conversationFiles[c]) \o ScanFrom(c + 1)

\* Every stored conversation's references, the first occurrence of each id.
scanAllConversations == Dedup(ScanFrom(1))

\* A key metadata.json never holds is read.
loadFailedFilesWrongKey == <<>>

\* metadata.failedFiles as a Set, when metadata.json holds the array.
loadFailedFiles ==
  IF metadataFile.kind = "metadata" /\ metadataFile.failedFiles.kind = "list"
    THEN Dedup(metadataFile.failedFiles.ids)
    ELSE <<>>

\* Re-reads metadata.json (or starts from {}) and sets its failedFiles key.
saveFailedFiles(ids) == [kind |-> "metadata", failedFiles |-> [kind |-> "list", ids |-> ids]]

\* The filter left out.
FilterRefsOmitted(all, skip) == all

\* allRefs.filter(ref => !skipFileIds.has(ref.fileId)), or allRefs itself
\* when the set is empty.
FilterRefs(all, skip) ==
  IF Len(skip) > 0
    THEN SelectSeq(all, LAMBDA ref : ref \notin Range(skip))
    ELSE all

\* Only the run's own failures are kept.
MergeFailedNewOnly(skip, newlyFailed) == newlyFailed

\* [...skipFileIds, ...result.failedFileIds]
MergeFailed(skip, newlyFailed) == skip \o newlyFailed

\* The callback is called without counting the item.
reportProgressUncounted(completedSoFar) == completedSoFar

\* reportProgress: completed++, then onProgress with completed and the three
\* counters.  processOne calls it in the synchronous stretch that follows
\* its skipped++, downloaded++ or failed++.
reportProgress(completedSoFar) == completedSoFar + 1

\* What one attempt at a file can meet: no download URL request succeeds
\* ("resolve"), or it is answered 401 or 403 ("auth"), the answer holds no download_url ("no_url"), the signed URL
\* cannot be fetched ("fetch"), mkdir or writeFile fails leaving nothing
\* ("write") or a partial file ("write_partial").
FileOutcomes == {"ok", "resolve", "auth", "no_url", "fetch", "write", "write_partial"}

\* runFileDownloads up to the call of downloadFiles, and downloadFiles up to
\* its loop.
FileScan ==
  /\ pc \in {"returned", "scan"}
  /\ allRefs' = scanAllConversations
  /\ skipFileIds' = loadFailedFiles
  /\ skippedKnown' = IF Len(skipFileIds') > 0
                       THEN Len(SelectSeq(allRefs', LAMBDA r : r \in Range(skipFileIds')))
                       ELSE 0
  /\ refs' = IF Len(allRefs') - skippedKnown' = 0
               THEN <<>>
               ELSE FilterRefs(allRefs', skipFileIds')
  /\ queue' = refs'
  /\ fileInProgress' = {}
  /\ fileDownloaded' = 0
  /\ fileSkipped' = 0
  /\ fileFailed' = 0
  /\ fileCompleted' = 0
  /\ failedFileIds' = <<>>
  /\ fileResult' = None
  /\ fileRequests' = [f \in FileIds |-> 0]
  /\ pc' = IF Len(allRefs') - skippedKnown' = 0 THEN "exited" ELSE "ffill"
  /\ UNCHANGED <<unitVars, environment, disk, runs, backupState, everFailed>>

FileStartWorker ==
  /\ pc = "ffill"
  /\ HasCapacity(Cardinality(fileInProgress), options.concurrency)
  /\ queue # <<>>
  /\ fileInProgress' = fileInProgress \cup {Shift(queue).item}
  /\ queue' = Shift(queue).rest
  /\ pc' = IF DelayAfterDequeue(Len(queue'), options.delay) THEN "fsleep" ELSE "ffill"
  /\ UNCHANGED <<unitVars, environment, disk, runs, backupState, allRefs, skipFileIds,
                 skippedKnown, refs, fileDownloaded, fileSkipped, fileFailed,
                 fileCompleted, failedFileIds, fileResult, fileRequests, everFailed>>

FileSleepDone ==
  /\ pc = "fsleep"
  /\ pc' = "ffill"
  /\ UNCHANGED <<unitVars, environment, disk, runs, backupState, fileLocals>>

FileAwaitRace ==
  /\ pc = "ffill"
  /\ ~(HasCapacity(Cardinality(fileInProgress), options.concurrency) /\ queue # <<>>)
  /\ fileInProgress # {}
  /\ pc' = "frace"
  /\ UNCHANGED <<unitVars, environment, disk, runs, backupState, fileLocals>>

\* processOne(ref) runs to its end: skipped when files/<id>/ holds a file,
\* else the two requests and the write.
FileWorkerFinish(id, outcome) ==
  /\ pc \in {"fsleep", "frace"}
  /\ id \in fileInProgress
  /\ outcome \in FileOutcomes
  /\ id \in filesDir => outcome = "ok"
  /\ IF id \in filesDir
       THEN /\ fileSkipped' = fileSkipped + 1
            /\ UNCHANGED <<filesDir, fileDownloaded, fileFailed, failedFileIds,
                           fileRequests, everFailed>>
       ELSE /\ fileSkipped' = fileSkipped
            /\ fileRequests' = [fileRequests EXCEPT ![id] = @ + 1]
            /\ filesDir' = IF outcome \in {"ok", "write_partial"}
                             THEN filesDir \cup {id} ELSE filesDir
            /\ fileDownloaded' = IF outcome = "ok" THEN fileDownloaded + 1 ELSE fileDownloaded
            /\ fileFailed' = IF outcome # "ok" THEN fileFailed + 1 ELSE fileFailed
            /\ failedFileIds' = IF outcome # "ok" THEN Append(failedFileIds, id) ELSE failedFileIds
            /\ everFailed' = IF outcome # "ok" THEN everFailed \cup {id} ELSE everFailed
  /\ fileCompleted' = reportProgress(fileCompleted)
  /\ fileInProgress' = fileInProgress \ {id}
  /\ pc' = IF pc = "frace" THEN "ffill" ELSE pc
  /\ UNCHANGED <<unitVars, environment, conversationFiles, indexFile, metadataFile, runs,
                 backupState, allRefs, skipFileIds, skippedKnown, refs, queue, fileResult>>

\* downloadFiles returns; runFileDownloads merges and persists the failures.
FileReturn ==
  /\ pc = "ffill"
  /\ LoopExits(Len(queue), Cardinality(fileInProgress))
  /\ fileResult' = [kind |-> "result",
                    downloaded |-> fileDownloaded,
                    skipped |-> fileSkipped,
                    failed |-> fileFailed,
                    total |-> Len(refs),
                    failedFileIds |-> failedFileIds]
  /\ metadataFile' = saveFailedFiles(MergeFailed(skipFileIds, failedFileIds))
  /\ pc' = "exited"
  /\ UNCHANGED <<unitVars, environment, conversationFiles, indexFile, filesDir, runs, backupState,
                 allRefs, skipFileIds, skippedKnown, refs, queue, fileInProgress,
                 fileDownloaded, fileSkipped, fileFailed, fileCompleted,
                 failedFileIds, fileRequests, everFailed>>

\* backupCommand is invoked again on the same output directory, after it
\* ended, exited on an error or was interrupted.
InvokeAgain ==
  /\ pc \in {"exited", "aborted", "interrupted"}
  /\ runs < MaxRuns
  /\ runs' = runs + 1
  /\ pc' = "start"
  /\ UNCHANGED <<unitVars, environment, disk, backupState, fileLocals>>

\* The file materialization is run again on the same output directory.
FilesAgain ==
  /\ pc = "exited"
  /\ runs < MaxRuns
  /\ runs' = runs + 1
  /\ pc' = "scan"
  /\ UNCHANGED <<unitVars, environment, disk, backupState, fileLocals>>

\* ------------------------------------------- file-service: the references
\* Strings; Undefined stands for a property that is missing.
Undefined == "<undefined>"
FILE_SERVICE_PREFIX == "file-service://"

StringTruthy(str) == str # "" /\ str # Undefined

\* A part of content.parts that is an object: its content_type and its
\* asset_pointer, split into the prefix and what follows it.
Part(contentType, prefix, rest) ==
  [content_type |-> contentType, prefix |-> prefix, rest |-> rest]
\* A part that is a plain string.
TextPart == Part("<string>", Undefined, Undefined)

Attachment(id, name) == [id |-> id, name |-> name]

\* A citation: metadata.file_id, metadata.title, file_id, title.
Citation(innerId, innerTitle, outerId, outerTitle) ==
  [metadata_file_id |-> innerId, metadata_title |-> innerTitle,
   file_id |-> outerId, title |-> outerTitle]

NoMessage == [message |-> FALSE, parts |-> <<>>, attachments |-> <<>>, citations |-> <<>>]
Node(parts, attachments, citations) ==
  [message |-> TRUE, parts |-> parts, attachments |-> attachments, citations |-> citations]

FileReference(fileId, filename, source) ==
  [fileId |-> fileId, filename |-> filename, source |-> source]

\* pointer.slice(FILE_SERVICE_PREFIX.length), or null (Undefined here) for
\* another prefix.
extractFileIdFromPointer(part) ==
  IF part.prefix = FILE_SERVICE_PREFIX THEN part.rest ELSE Undefined

\* a ?? b
Coalesce(a, b) == IF a # Undefined THEN a ELSE b

RefsHas(map, fileId) == \E i \in 1..Len(map) : map[i].fileId = fileId

\* refs.set without the refs.has test: the later entry replaces the earlier
\* one, at its place.
RefsSetOverwrite(map, ref) ==
  IF RefsHas(map, ref.fileId)
    THEN [i \in 1..Len(map) |-> IF map[i].fileId = ref.fileId THEN ref ELSE map[i]]
    ELSE Append(map, ref)

\* if (fileId && !refs.has(fileId)) refs.set(fileId, ref)
RefsSet(map, ref) ==
  IF RefsHas(map, ref.fileId) THEN map ELSE Append(map, ref)

AddRef(map, ref) == IF StringTruthy(ref.fileId) THEN RefsSet(map, ref) ELSE map

RECURSIVE ScanParts(_, _)
ScanParts(map, parts) ==
  IF parts = <<>> THEN map
  ELSE LET part == Head(parts)
           next ==
             IF part.content_type = "image_asset_pointer" /\ StringTruthy(part.prefix)
               THEN AddRef(map, FileReference(extractFileIdFromPointer(part),
                                              Undefined, "image_asset_pointer"))
               ELSE map
       IN ScanParts(next, Tail(parts))

RECURSIVE ScanAttachments(_, _)
ScanAttachments(map, attachments) ==
  IF attachments = <<>> THEN map
  ELSE LET a == Head(attachments)
       IN ScanAttachments(AddRef(map, FileReference(a.id, a.name, "attachment")),
                          Tail(attachments))

RECURSIVE ScanCitations(_, _)
ScanCitations(map, citations) ==
  IF citations = <<>> THEN map
  ELSE LET c == Head(citations)
           ref == FileReference(Coalesce(c.metadata_file_id, c.file_id),
                                Coalesce(c.metadata_title, c.title), "citation")
       IN ScanCitations(AddRef(map, ref), Tail(citations))

ScanNode(map, node) ==
  IF ~node.message THEN map
  ELSE ScanCitations(ScanAttachments(ScanParts(map, node.parts), node.attachments),
                     node.citations)

RECURSIVE ScanMapping(_, _)
ScanMapping(map, nodes) ==
  IF nodes = <<>> THEN map ELSE ScanMapping(ScanNode(map, Head(nodes)), Tail(nodes))

\* extractFileReferences(detail), entry by entry: Array.from(refs.values()).
ExtractFromMapping(nodes) == ScanMapping(<<>>, nodes)

\* extractFileReferences is called on detail.
Extract ==
  /\ pc = "unit"
  /\ extracted = None
  /\ extracted' = [kind |-> "refs", refs |-> ExtractFromMapping(detail)]
  /\ UNCHANGED <<detail, retryVars, scanVars, downloadVars, listVars, environment, disk, pc, runs, backupState, fileLocals>>

\* ------------------------------------------------ file-service: the scan
\* A .json file of a conversations directory that JSON.parse or
\* extractFileReferences rejects.
Unparseable == [kind |-> "unparseable", refs |-> <<>>]
\* One that holds a conversation: what extractFileReferences returns for it.
Parsed(fileRefs) == [kind |-> "detail", refs |-> fileRefs]

RECURSIVE Flatten(_)
Flatten(seqs) == IF seqs = <<>> THEN <<>> ELSE Head(seqs) \o Flatten(Tail(seqs))

\* The .json files of conversations/, then those of each
\* projects/<name>/conversations/, each directory in readdir order.
collectAllJsonFiles(tree) == tree.main \o Flatten(tree.projects)

\* One pass of the loop of scanAllConversations: a file that cannot be read
\* adds nothing; each reference of the others is kept unless its fileId is
\* in the Map already.
RECURSIVE ScanFileRefs(_, _)
ScanFileRefs(map, fileRefs) ==
  IF fileRefs = <<>> THEN map
  ELSE ScanFileRefs(RefsSet(map, Head(fileRefs)), Tail(fileRefs))

\* The references are deduplicated within a conversation only.
ScanFilePerConversation(map, file) ==
  IF file.kind = "detail" THEN map \o file.refs ELSE map

ScanFile(map, file) ==
  IF file.kind = "detail" THEN ScanFileRefs(map, file.refs) ELSE map

RECURSIVE ScanFiles(_, _)
ScanFiles(map, files) ==
  IF files = <<>> THEN map ELSE ScanFiles(ScanFile(map, Head(files)), Tail(files))

\* scanAllConversations(inputDir) on a directory tree.
ScanAllJsonFiles(tree) == ScanFiles(<<>>, collectAllJsonFiles(tree))

Scan ==
  /\ pc = "unit"
  /\ scanned = None
  /\ scanned' = [kind |-> "refs", refs |-> ScanAllJsonFiles(outputTree)]
  /\ UNCHANGED <<outputTree, retryVars, extractVars, downloadVars, listVars, environment, disk, pc, runs,
                 backupState, fileLocals>>

\* ------------------------------------------------------- api/pagination
MaxCursorPages == 3
DefaultLimit == 28
DefaultDelay == 500

\* let total = Infinity, and the totals of the responses.
Infinity == [infinite |-> TRUE]
Number(n) == [value |-> n]

\* The request is repeated at offset = total.
LoopContinuesInclusive(o, t) == t = Infinity \/ o <= t.value

\* while (offset < total)
LoopContinues(o, t) == t = Infinity \/ o < t.value

\* A response of the conversations endpoint to (offset, limit): the total
\* it reports and the n items it returns, those at the positions
\* offset + 1 .. offset + n of the server's order.
ConversationsResponse(reported, o, n) ==
  [total |-> Number(reported), items |-> [i \in 1..n |-> o + i]]

\* The loop test: the next page is requested, or the generator returns.
ListTest ==
  /\ lister = "fetchAllConversations"
  /\ listPc = "test"
  /\ UNCHANGED cursorVars
  /\ IF LoopContinues(offset, total)
       THEN /\ listRequests' = Append(listRequests, offset)
            /\ listPc' = "fetch"
       ELSE /\ listRequests' = listRequests
            /\ listPc' = "returned"
  /\ UNCHANGED <<listResponses, listOptions, offset, total, fetched, page, listed, listSleeps>>
  /\ UNCHANGED <<retryVars, extractVars, scanVars, downloadVars, environment, disk, pc,
                 runs, backupState, fileLocals>>

\* await client.fetch settles: it throws, or total = response.total and the
\* items are to be yielded.
ListResponse(ok, reported, n) ==
  /\ lister = "fetchAllConversations"
  /\ listPc = "fetch"
  /\ UNCHANGED cursorVars
  /\ n <= listOptions.limit
  /\ IF ok
       THEN /\ total' = ConversationsResponse(reported, offset, n).total
            /\ page' = ConversationsResponse(reported, offset, n).items
            /\ listResponses' = Append(listResponses, [total |-> reported, count |-> n])
            /\ listPc' = "yield"
       ELSE /\ listPc' = "threw"
            /\ UNCHANGED <<total, page, listResponses>>
  /\ UNCHANGED <<listOptions, offset, fetched, listed, listRequests, listSleeps>>
  /\ UNCHANGED <<retryVars, extractVars, scanVars, downloadVars, environment, disk, pc,
                 runs, backupState, fileLocals>>

\* The loop over response.items ends with one item still to yield.
PageConsumedEarly(items) == Len(items) <= 1

\* for (const item of response.items) has yielded every item.
PageConsumed(items) == items = <<>>

\* yield item; fetched++: the consumer takes the item and asks for the next.
ListYield ==
  /\ lister = "fetchAllConversations"
  /\ listPc = "yield"
  /\ UNCHANGED cursorVars
  /\ ~PageConsumed(page)
  /\ listed' = Append(listed, Head(page))
  /\ fetched' = fetched + 1
  /\ page' = Tail(page)
  /\ UNCHANGED <<listResponses, listOptions, offset, total, listPc, listRequests, listSleeps>>
  /\ UNCHANGED <<retryVars, extractVars, scanVars, downloadVars, environment, disk, pc,
                 runs, backupState, fileLocals>>

\* After the items: offset += limit, and the sleep when a page follows.
ListPageDone ==
  /\ lister = "fetchAllConversations"
  /\ listPc = "yield"
  /\ UNCHANGED cursorVars
  /\ PageConsumed(page)
  /\ offset' = offset + listOptions.limit
  /\ IF LoopContinues(offset', total) /\ listOptions.delay > 0
       THEN /\ listSleeps' = Append(listSleeps, listOptions.delay)
            /\ listPc' = "sleep"
       ELSE /\ listSleeps' = listSleeps
            /\ listPc' = "test"
  /\ UNCHANGED <<listResponses, listOptions, total, fetched, page, listed, listRequests>>
  /\ UNCHANGED <<retryVars, extractVars, scanVars, downloadVars, environment, disk, pc,
                 runs, backupState, fileLocals>>

\* await sleep(delay) settles.
ListSleepDone ==
  /\ lister = "fetchAllConversations"
  /\ listPc = "sleep"
  /\ UNCHANGED cursorVars
  /\ listPc' = "test"
  /\ UNCHANGED <<listResponses, listOptions, offset, total, fetched, page, listed, listRequests, listSleeps>>
  /\ UNCHANGED <<retryVars, extractVars, scanVars, downloadVars, environment, disk, pc,
                 runs, backupState, fileLocals>>

\* The cursors: null, undefined (Undefined) and strings.
NullCursor == "<null>"

\* What `if (cursor)` and `while (cursor)` test.
CursorTruthy(c) == c \notin {NullCursor, Undefined, ""}

\* Only null ends the loop.
CursorPresentNotNull(c) == c # NullCursor

\* cursor !== null && cursor !== undefined
CursorPresent(c) == c \notin {NullCursor, Undefined}

\* encodeURIComponent, on the cursors of the model.
encodeURIComponent(c) ==
  CASE c = "a b" -> "a%20b"
    [] OTHER -> c

\* The cursor a lister starts with: null in fetchAllProjects, '0' in
\* fetchProjectConversations.
InitialCursor(which) ==
  CASE which = "fetchAllProjects" -> NullCursor
    [] which = "fetchProjectConversations" -> "0"
    [] OTHER -> NullCursor

\* A response of a cursor endpoint: the cursor it gives, null or absent at
\* the end, and the n items of its page.
CursorResponse(next, pageNo, n) ==
  [cursor |-> next, items |-> [i \in 1..n |-> 10 * pageNo + i]]

\* fetchProjectConversations, the loop test: the page at the cursor is
\* requested, or the generator returns.
ProjectConversationsTest ==
  /\ lister = "fetchProjectConversations"
  /\ listPc = "test"
  /\ IF CursorPresent(cursor)
       THEN /\ cursorRequests' = Append(cursorRequests, encodeURIComponent(cursor))
            /\ listPc' = "fetch"
       ELSE /\ cursorRequests' = cursorRequests
            /\ listPc' = "returned"
  /\ UNCHANGED <<lister, cursor, responseCursor, returnedCursors>>
  /\ UNCHANGED <<listResponses, listOptions, offset, total, fetched, page, listed, listRequests, listSleeps>>
  /\ UNCHANGED <<retryVars, extractVars, scanVars, downloadVars, environment, disk, pc,
                 runs, backupState, fileLocals>>

\* fetchProjectConversations, await client.fetch settles.
ProjectConversationsResponse(ok, next, n) ==
  /\ lister = "fetchProjectConversations"
  /\ listPc = "fetch"
  /\ Len(cursorRequests) >= MaxCursorPages => ~CursorPresent(next)
  /\ IF ok
       THEN /\ page' = CursorResponse(next, Len(cursorRequests), n).items
            /\ responseCursor' = CursorResponse(next, Len(cursorRequests), n).cursor
            /\ returnedCursors' = Append(returnedCursors, next)
            /\ listPc' = "yield"
       ELSE /\ listPc' = "threw"
            /\ UNCHANGED <<page, responseCursor, returnedCursors>>
  /\ UNCHANGED <<lister, cursor, cursorRequests>>
  /\ UNCHANGED <<listResponses, listOptions, offset, total, fetched, listed, listRequests, listSleeps>>
  /\ UNCHANGED <<retryVars, extractVars, scanVars, downloadVars, environment, disk, pc,
                 runs, backupState, fileLocals>>

\* fetchProjectConversations, yield item; fetched++.
ProjectConversationsYield ==
  /\ lister = "fetchProjectConversations"
  /\ listPc = "yield"
  /\ ~PageConsumed(page)
  /\ listed' = Append(listed, Head(page))
  /\ fetched' = fetched + 1
  /\ page' = Tail(page)
  /\ UNCHANGED cursorVars
  /\ UNCHANGED <<listResponses, listOptions, offset, total, listPc, listRequests, listSleeps>>
  /\ UNCHANGED <<retryVars, extractVars, scanVars, downloadVars, environment, disk, pc,
                 runs, backupState, fileLocals>>

\* fetchProjectConversations, after the items: cursor = response.cursor, and
\* the sleep `if (cursor && delay > 0)`.
ProjectConversationsPageDone ==
  /\ lister = "fetchProjectConversations"
  /\ listPc = "yield"
  /\ PageConsumed(page)
  /\ cursor' = responseCursor
  /\ IF CursorTruthy(cursor') /\ listOptions.delay > 0
       THEN /\ listSleeps' = Append(listSleeps, listOptions.delay)
            /\ listPc' = "sleep"
       ELSE /\ listSleeps' = listSleeps
            /\ listPc' = "test"
  /\ UNCHANGED <<lister, responseCursor, cursorRequests, returnedCursors>>
  /\ UNCHANGED <<listResponses, listOptions, offset, total, fetched, page, listed, listRequests>>
  /\ UNCHANGED <<retryVars, extractVars, scanVars, downloadVars, environment, disk, pc,
                 runs, backupState, fileLocals>>

\* fetchProjectConversations, await sleep(delay) settles.
ProjectConversationsSleepDone ==
  /\ lister = "fetchProjectConversations"
  /\ listPc = "sleep"
  /\ listPc' = "test"
  /\ UNCHANGED cursorVars
  /\ UNCHANGED <<listResponses, listOptions, offset, total, fetched, page, listed, listRequests, listSleeps>>
  /\ UNCHANGED <<retryVars, extractVars, scanVars, downloadVars, environment, disk, pc,
                 runs, backupState, fileLocals>>

\* The consumer of a generator takes an item and leaves its loop: the
\* generator ends at that yield, fetched++ is not reached.
ListStop ==
  /\ lister \in {"fetchAllConversations", "fetchProjectConversations"}
  /\ listPc = "yield"
  /\ ~PageConsumed(page)
  /\ listed' = Append(listed, Head(page))
  /\ page' = Tail(page)
  /\ listPc' = "stopped"
  /\ UNCHANGED cursorVars
  /\ UNCHANGED <<listResponses, listOptions, offset, total, fetched, listRequests, listSleeps>>
  /\ UNCHANGED <<retryVars, extractVars, scanVars, downloadVars, environment, disk, pc,
                 runs, backupState, fileLocals>>

\* fetchAllProjects, the top of the do loop: the sidebar is requested, with
\* the cursor when there is one.
ProjectsRequest ==
  /\ lister = "fetchAllProjects"
  /\ listPc = "test"
  /\ cursorRequests' = Append(cursorRequests,
                              IF CursorTruthy(cursor) THEN encodeURIComponent(cursor)
                              ELSE Undefined)
  /\ listPc' = "fetch"
  /\ UNCHANGED <<lister, cursor, responseCursor, returnedCursors>>
  /\ UNCHANGED <<listResponses, listOptions, offset, total, fetched, page, listed, listRequests, listSleeps>>
  /\ UNCHANGED <<retryVars, extractVars, scanVars, downloadVars, environment, disk, pc,
                 runs, backupState, fileLocals>>

\* fetchAllProjects, await client.fetch settles: the items are pushed,
\* cursor = response.cursor, then the sleep or `while (cursor)`.
ProjectsResponse(ok, next, n) ==
  /\ lister = "fetchAllProjects"
  /\ listPc = "fetch"
  /\ Len(cursorRequests) >= MaxCursorPages => ~CursorTruthy(next)
  /\ IF ok
       THEN /\ listed' = listed \o CursorResponse(next, Len(cursorRequests), n).items
            /\ cursor' = CursorResponse(next, Len(cursorRequests), n).cursor
            /\ returnedCursors' = Append(returnedCursors, next)
            /\ IF CursorTruthy(cursor') /\ listOptions.delay > 0
                 THEN /\ listSleeps' = Append(listSleeps, listOptions.delay)
                      /\ listPc' = "sleep"
                 ELSE /\ listSleeps' = listSleeps
                      /\ listPc' = IF CursorTruthy(cursor') THEN "test" ELSE "returned"
       ELSE /\ listPc' = "threw"
            /\ UNCHANGED <<listed, cursor, returnedCursors, listSleeps>>
  /\ UNCHANGED <<lister, responseCursor, cursorRequests>>
  /\ UNCHANGED <<listResponses, listOptions, offset, total, fetched, page, listRequests>>
  /\ UNCHANGED <<retryVars, extractVars, scanVars, downloadVars, environment, disk, pc,
                 runs, backupState, fileLocals>>

\* fetchAllProjects, await sleep(delay) settles, then `while (cursor)`.
ProjectsSleepDone ==
  /\ lister = "fetchAllProjects"
  /\ listPc = "sleep"
  /\ listPc' = IF CursorTruthy(cursor) THEN "test" ELSE "returned"
  /\ UNCHANGED cursorVars
  /\ UNCHANGED <<listResponses, listOptions, offset, total, fetched, page, listed, listRequests, listSleeps>>
  /\ UNCHANGED <<retryVars, extractVars, scanVars, downloadVars, environment, disk, pc,
                 runs, backupState, fileLocals>>

\* ---------------------------------------------------------- utils/retry
DefaultMaxRetries == 5
DefaultBaseDelay == 1000
DefaultMaxDelay == 60000

\* Largest maxRetries a caller passes.
MaxMaxRetries == 6

\* Math.random() in thousandths: 0, 0.5, 0.999.
Randoms == {0, 500, 999}

AuthenticationError == [name |-> "AuthenticationError", statusCode |-> Absent, retryAfter |-> Absent]
NetworkError(status) == [name |-> "NetworkError", statusCode |-> Num(status), retryAfter |-> Absent]
RateLimitError(retryAfter) == [name |-> "RateLimitError", statusCode |-> Absent, retryAfter |-> retryAfter]
\* What ConversationDetailSchema.parse and its like throw.
ZodError == [name |-> "ZodError", statusCode |-> Absent, retryAfter |-> Absent]

\* What one invocation of fn can throw.
FnErrors ==
  {AuthenticationError, NetworkError(404), NetworkError(500),
   RateLimitError(Absent), RateLimitError(Num(5000)), ZodError}

RECURSIVE Pow2(_)
Pow2(n) == IF n = 0 THEN 1 ELSE 2 * Pow2(n - 1)

Min(a, b) == IF a <= b THEN a ELSE b

\* Math.max in place of Math.min.
calculateDelayMax(a, baseDelay, maxDelay, random) ==
  LET exponentialDelay == Fx(baseDelay * Pow2(a))
      jitter == (random * 3 * baseDelay * Pow2(a)) \div 10
  IN [attempt |-> a, exponentialDelay |-> exponentialDelay, jitter |-> jitter,
      delay |-> IF exponentialDelay + jitter >= Fx(maxDelay)
                  THEN exponentialDelay + jitter ELSE Fx(maxDelay)]

\* calculateDelay(attempt, baseDelay, maxDelay), with Math.random() = random / 1000;
\* the values are in fixed point.
calculateDelay(a, baseDelay, maxDelay, random) ==
  LET exponentialDelay == Fx(baseDelay * Pow2(a))
      jitter == (random * 3 * baseDelay * Pow2(a)) \div 10
  IN [attempt |-> a, exponentialDelay |-> exponentialDelay, jitter |-> jitter,
      delay |-> Min(exponentialDelay + jitter, Fx(maxDelay))]

\* The 404 case left out.
IsNonRetryableAuthOnly(error) == error.name = "AuthenticationError"

\* lastError.name === 'AuthenticationError' ||
\* (lastError.name === 'NetworkError' && lastError.statusCode === 404)
IsNonRetryable(error) ==
  \/ error.name = "AuthenticationError"
  \/ error.name = "NetworkError" /\ error.statusCode = Num(404)

\* attempt + 1 >= opts.maxRetries: gives up one attempt early.
IsLastAttemptEarly(a, maxRetries) == a + 1 >= maxRetries

\* attempt === opts.maxRetries
IsLastAttempt(a, maxRetries) == a = maxRetries

\* fn() resolves: withRetry returns its value.
RetryReturn ==
  /\ retryPc = "call"
  /\ fnCalls' = fnCalls + 1
  /\ retryPc' = "returned"
  /\ UNCHANGED <<retryOpts, attempt, lastError, thrown, sleeps, calc, onRetryCalls>>
  /\ UNCHANGED <<extractVars, scanVars, downloadVars, listVars, environment, disk, pc, runs, backupState, fileLocals>>

\* The observer is given the 0-based attempt index.
OnRetryAttemptZeroBased(a) == a

\* opts.onRetry?.(lastError, attempt + 1, delay): the attempt number.
OnRetryAttempt(a) == a + 1

\* The delay is the hint of the error when it carries one.
RetryDelayHonoursHint(error, a, opts, random) ==
  IF error.retryAfter # Absent
    THEN [calculateDelay(a, opts.baseDelay, opts.maxDelay, random)
            EXCEPT !.delay = Fx(error.retryAfter.n)]
    ELSE calculateDelay(a, opts.baseDelay, opts.maxDelay, random)

\* const delay = calculateDelay(attempt, opts.baseDelay, opts.maxDelay), for
\* whatever error was caught.
RetryDelay(error, a, opts, random) ==
  calculateDelay(a, opts.baseDelay, opts.maxDelay, random)

\* fn() rejects with error: the catch block, up to the break, the throw or
\* the await of sleep(delay).
RetryCatch(error, random) ==
  /\ retryPc = "call"
  /\ fnCalls' = fnCalls + 1
  /\ lastError' = error
  /\ IF IsLastAttempt(attempt, retryOpts.maxRetries) \/ IsNonRetryable(error)
       THEN /\ thrown' = error
            /\ retryPc' = "thrown"
            /\ UNCHANGED <<sleeps, calc, onRetryCalls>>
       ELSE LET c == RetryDelay(error, attempt, retryOpts, random) IN
            /\ calc' = c
            /\ onRetryCalls' = [count |-> onRetryCalls.count + 1,
                                error |-> error,
                                attempt |-> OnRetryAttempt(attempt),
                                delay |-> c.delay]
            /\ sleeps' = sleeps + 1
            /\ retryPc' = "sleeping"
            /\ thrown' = thrown
  /\ UNCHANGED <<retryOpts, attempt>>
  /\ UNCHANGED <<extractVars, scanVars, downloadVars, listVars, environment, disk, pc, runs, backupState, fileLocals>>

\* sleep(delay) resolves: attempt++ and the next pass of the loop.
RetrySleepDone ==
  /\ retryPc = "sleeping"
  /\ attempt' = attempt + 1
  /\ retryPc' = "call"
  /\ UNCHANGED <<retryOpts, lastError, thrown, fnCalls, sleeps, calc, onRetryCalls>>
  /\ UNCHANGED <<extractVars, scanVars, downloadVars, listVars, environment, disk, pc, runs, backupState, fileLocals>>

\* ------------------------------------- file-service: one file's download
\* A directory of the disk: the paths (sequences of names, relative to
\* files/<fileId>) of its directories, <<>> being files/<fileId> itself, and
\* of its regular files.
NoDirectory == [dirs |-> {}, files |-> {}]

\* The entries readdir(dir) lists: the paths one name longer than dir.
IsChild(path, dir) ==
  Len(path) = Len(dir) + 1 /\ SubSeq(path, 1, Len(dir)) = dir

\* Only the entries of the directory itself are looked at.
dirHasFilesShallow(tree, dir) ==
  /\ dir \in tree.dirs
  /\ \E path \in tree.files : IsChild(path, dir)

\* dirHasFiles(dir): false when readdir fails; true at a regular file, or at
\* a subdirectory for which it is true.
RECURSIVE dirHasFiles(_, _)
dirHasFiles(tree, dir) ==
  /\ dir \in tree.dirs
  /\ \/ \E path \in tree.files : IsChild(path, dir)
     \/ \E sub \in tree.dirs : IsChild(sub, dir) /\ dirHasFiles(tree, sub)

\* A name as path.join splits it at the separators.
PathOf(name) ==
  CASE name = "dalle-generations/x.webp" -> <<"dalle-generations", "x.webp">>
    [] OTHER -> <<name>>

\* path.dirname
Dirname(path) == SubSeq(path, 1, Len(path) - 1)

\* fs.mkdir(dir, { recursive: true }): dir and every ancestor.
MkdirRecursive(tree, dir) ==
  [tree EXCEPT !.dirs = @ \cup {SubSeq(dir, 1, n) : n \in 0..Len(dir)}]

\* fs.writeFile(filePath, ...) into an existing directory.
WriteFile(tree, path) == [tree EXCEPT !.files = @ \cup {path}]

\* The reference's name first.
ChooseFilenameRefFirst(response, reference) ==
  IF StringTruthy(reference.filename) THEN reference.filename
  ELSE IF StringTruthy(response.file_name) THEN response.file_name
  ELSE reference.fileId

\* (meta.file_name as string) || ref.filename || ref.fileId
ChooseFilename(response, reference) ==
  IF StringTruthy(response.file_name) THEN response.file_name
  ELSE IF StringTruthy(reference.filename) THEN reference.filename
  ELSE reference.fileId

\* The directory is made and the file written as soon as the URL is known.
AfterResolveWrite == "mkdir"

\* What follows a resolve response that holds a download_url: fetchRaw.
AfterResolve == "fetch"

\* The response is not looked at.
HasDownloadUrlUnchecked(response) == TRUE

\* !meta.download_url is false
HasDownloadUrl(response) == StringTruthy(response.download_url)

\* The catch and finally blocks of processOne.
DownloadFails ==
  /\ stats' = [stats EXCEPT !.failed = @ + 1]
  /\ dlFailedFileIds' = Append(dlFailedFileIds, dlRef.fileId)
  /\ onErrorCalls' = Append(onErrorCalls, dlRef.fileId)
  /\ dlPc' = "done"

\* The retries of a step, as the default of withRetry has them.
StepMaxRetriesDefault == DefaultMaxRetries

\* retryOptions: { maxRetries: 1 } of the resolve step, { maxRetries: 1 } of
\* fetchRaw.
StepMaxRetries == 1

\* The client runs each request of a step under withRetry with the step's
\* retry options: the step gives up at the last attempt or at an error that
\* is not retried.
StepGivesUp(a, error) == IsLastAttempt(a, StepMaxRetries) \/ IsNonRetryable(error)

\* await dirHasFiles(fileDir): skipped, or the resolve request is issued.
DownloadCheck ==
  /\ dlPc = "check"
  /\ IF dirHasFiles(fileDir, <<>>)
       THEN /\ stats' = [stats EXCEPT !.skipped = @ + 1]
            /\ dlPc' = "done"
            /\ requests' = requests
       ELSE /\ requests' = [requests EXCEPT !.resolve = @ + 1]
            /\ dlPc' = "resolve"
            /\ stats' = stats
  /\ UNCHANGED <<dlRef, fileDir, meta, buffer, dlFailedFileIds, onErrorCalls, written, dlRuns,
                 stepAttempt>>
  /\ UNCHANGED <<retryVars, extractVars, scanVars, listVars, environment, disk, pc, runs,
                 backupState, fileLocals>>

\* A request of client.fetch(FILE_DOWNLOAD) settles.  It failed with error:
\* the step gives up and the item fails, or the request is issued again
\* after the delay.  It answered (error None): without a download_url the
\* item fails, else fetchRaw is called.
DownloadResolve(response, error) ==
  /\ dlPc = "resolve"
  /\ IF error # None
       THEN /\ meta' = meta
            /\ IF StepGivesUp(stepAttempt, error)
                 THEN DownloadFails /\ requests' = requests /\ stepAttempt' = 0
                 ELSE /\ requests' = [requests EXCEPT !.resolve = @ + 1]
                      /\ stepAttempt' = stepAttempt + 1
                      /\ UNCHANGED <<dlPc, stats, dlFailedFileIds, onErrorCalls>>
       ELSE /\ meta' = response
            /\ stepAttempt' = 0
            /\ IF ~HasDownloadUrl(response)
                 THEN DownloadFails /\ requests' = requests
                 ELSE /\ dlPc' = AfterResolve
                      /\ requests' = IF AfterResolve = "fetch"
                                       THEN [requests EXCEPT !.fetch = @ + 1]
                                       ELSE requests
                      /\ UNCHANGED <<stats, dlFailedFileIds, onErrorCalls>>
  /\ UNCHANGED <<dlRef, fileDir, buffer, written, dlRuns>>
  /\ UNCHANGED <<retryVars, extractVars, scanVars, listVars, environment, disk, pc, runs,
                 backupState, fileLocals>>

\* A request of client.fetchRaw(meta.download_url) settles: it failed with
\* error, or it returned the bytes (error None).
DownloadFetch(error) ==
  /\ dlPc = "fetch"
  /\ IF error # None
       THEN /\ buffer' = buffer
            /\ IF StepGivesUp(stepAttempt, error)
                 THEN DownloadFails /\ requests' = requests /\ stepAttempt' = 0
                 ELSE /\ requests' = [requests EXCEPT !.fetch = @ + 1]
                      /\ stepAttempt' = stepAttempt + 1
                      /\ UNCHANGED <<dlPc, stats, dlFailedFileIds, onErrorCalls>>
       ELSE /\ buffer' = TRUE
            /\ dlPc' = "mkdir"
            /\ stepAttempt' = 0
            /\ requests' = requests
            /\ UNCHANGED <<stats, dlFailedFileIds, onErrorCalls>>
  /\ UNCHANGED <<dlRef, fileDir, meta, written, dlRuns>>
  /\ UNCHANGED <<retryVars, extractVars, scanVars, listVars, environment, disk, pc, runs,
                 backupState, fileLocals>>

\* fs.mkdir(path.dirname(filePath), { recursive: true }) settles.
DownloadMkdir(ok) ==
  /\ dlPc = "mkdir"
  /\ IF ok
       THEN /\ fileDir' = MkdirRecursive(fileDir, Dirname(PathOf(ChooseFilename(meta, dlRef))))
            /\ dlPc' = "write"
            /\ UNCHANGED <<stats, dlFailedFileIds, onErrorCalls>>
       ELSE DownloadFails /\ fileDir' = fileDir
  /\ UNCHANGED <<dlRef, meta, buffer, requests, written, dlRuns, stepAttempt>>
  /\ UNCHANGED <<retryVars, extractVars, scanVars, listVars, environment, disk, pc, runs,
                 backupState, fileLocals>>

\* fs.writeFile(filePath, ...) settles: the file is there and downloaded++,
\* or it failed, leaving nothing or a truncated file.
DownloadWrite(ok, partial) ==
  /\ dlPc = "write"
  /\ ok => ~partial
  /\ fileDir' = IF ok \/ partial
                  THEN WriteFile(fileDir, PathOf(ChooseFilename(meta, dlRef)))
                  ELSE fileDir
  /\ IF ok
       THEN /\ stats' = [stats EXCEPT !.downloaded = @ + 1]
            /\ written' = PathOf(ChooseFilename(meta, dlRef))
            /\ dlRuns' = [dlRuns EXCEPT !.downloaded = TRUE]
            /\ dlPc' = "done"
            /\ UNCHANGED <<dlFailedFileIds, onErrorCalls>>
       ELSE DownloadFails /\ UNCHANGED <<written, dlRuns>>
  /\ UNCHANGED <<dlRef, meta, buffer, requests, stepAttempt>>
  /\ UNCHANGED <<retryVars, extractVars, scanVars, listVars, environment, disk, pc, runs,
                 backupState, fileLocals>>

\* downloadFiles is run again, later, with the same reference.
DownloadAgain ==
  /\ dlPc = "done"
  /\ dlRuns.count < MaxRuns
  /\ dlRuns' = [dlRuns EXCEPT !.count = @ + 1]
  /\ dlPc' = "check"
  /\ meta' = None
  /\ buffer' = FALSE
  /\ stats' = [downloaded |-> 0, skipped |-> 0, failed |-> 0]
  /\ dlFailedFileIds' = <<>>
  /\ requests' = [resolve |-> 0, fetch |-> 0]
  /\ onErrorCalls' = <<>>
  /\ written' = None
  /\ stepAttempt' = 0
  /\ UNCHANGED <<dlRef, fileDir>>
  /\ UNCHANGED <<retryVars, extractVars, scanVars, listVars, environment, disk, pc, runs,
                 backupState, fileLocals>>

\* ------------------------------------------------------- initial states
\* Summary update times a listing can carry (string | number | null).
SummaryTimes ==
  {Null, Num(Fx(100)), Num(Fx(150)), IsoString(1, 40, 0), IsoString(1, 40, 500),
   EmptyString, InvalidDateString}

\* Detail update times (number | null).
DetailTimes == {Null, Num(Fx(100)), Num(Fx(150))}

\* The update time of a conversation that is not the one under study.
PlainTime == Num(Fx(100))

Delays == {0, 500}

TypeOK ==
  /\ pc \in {"start", "diff", "fill", "sleep", "race", "returned", "aborted",
             "interrupted", "scan", "ffill", "fsleep", "frace", "exited", "unit"}
  /\ runs \in 1..MaxRuns

NoBackupYet ==
  /\ conversations = <<>>
  /\ downloadQueue = <<>>
  /\ inProgress = {}
  /\ rejected = {}
  /\ downloaded = 0
  /\ skipped = 0
  /\ failed = 0
  /\ completed = 0
  /\ errors = <<>>
  /\ result = None
  /\ detailRequests = [c \in ConvIds |-> 0]

NoFileRunYet ==
  /\ allRefs = <<>>
  /\ skipFileIds = <<>>
  /\ skippedKnown = 0
  /\ refs = <<>>
  /\ queue = <<>>
  /\ fileInProgress = {}
  /\ fileDownloaded = 0
  /\ fileSkipped = 0
  /\ fileFailed = 0
  /\ fileCompleted = 0
  /\ failedFileIds = <<>>
  /\ fileResult = None
  /\ fileRequests = [f \in FileIds |-> 0]
  /\ everFailed = {}

NoRetryCall ==
  /\ attempt = 0
  /\ lastError = None
  /\ retryPc = "call"
  /\ thrown = None
  /\ fnCalls = 0
  /\ sleeps = 0
  /\ calc = None
  /\ onRetryCalls = [count |-> 0, error |-> None, attempt |-> 0, delay |-> 0]

DefaultRetryOptions ==
  [maxRetries |-> DefaultMaxRetries, baseDelay |-> DefaultBaseDelay,
   maxDelay |-> DefaultMaxDelay]

NoExtractCall ==
  /\ detail = <<>>
  /\ extracted = None

NoScanCall ==
  /\ outputTree = [main |-> <<>>, projects |-> <<>>]
  /\ scanned = None

NoDownloadCall ==
  /\ dlPc = "check"
  /\ meta = None
  /\ buffer = FALSE
  /\ stats = [downloaded |-> 0, skipped |-> 0, failed |-> 0]
  /\ dlFailedFileIds = <<>>
  /\ requests = [resolve |-> 0, fetch |-> 0]
  /\ onErrorCalls = <<>>
  /\ written = None
  /\ dlRuns = [count |-> 1, downloaded |-> FALSE]
  /\ stepAttempt = 0

NoDownload ==
  /\ dlRef = FileReference("file_1", Undefined, "attachment")
  /\ fileDir = NoDirectory
  /\ NoDownloadCall

NoListCall ==
  /\ cursor = InitialCursor(lister)
  /\ responseCursor = Undefined
  /\ cursorRequests = <<>>
  /\ returnedCursors = <<>>
  /\ offset = 0
  /\ total = Infinity
  /\ fetched = 0
  /\ page = <<>>
  /\ listPc = "test"
  /\ listed = <<>>
  /\ listRequests = <<>>
  /\ listSleeps = <<>>
  /\ listResponses = <<>>

NoList ==
  /\ lister = "fetchAllConversations"
  /\ listOptions = [limit |-> DefaultLimit, delay |-> DefaultDelay]
  /\ NoListCall

\* No function is exercised on its own.
UnitsIdle ==
  /\ retryOpts = DefaultRetryOptions
  /\ NoRetryCall
  /\ NoExtractCall
  /\ NoScanCall
  /\ NoDownload
  /\ NoList

FreshDirectory ==
  /\ conversationFiles = [c \in ConvIds |-> NoFile]
  /\ indexFile = NoFile
  /\ metadataFile = NoFile
  /\ filesDir = {}

\* The engine alone against a fresh output directory; the server's listing
\* holds the first n conversations, one of them with any summary and detail
\* update time.
InitBackup ==
  /\ options \in [concurrency : 1..MaxConcurrency, delay : Delays,
                  incremental : BOOLEAN, verbose : BOOLEAN]
  /\ \E n \in 0..MaxConvs, special \in 1..MaxConvs, st \in SummaryTimes, dt \in DetailTimes :
       /\ serverList = [i \in 1..n |->
            [id |-> i, update_time |-> IF i = special THEN st ELSE PlainTime]]
       /\ serverDetail = [c \in ConvIds |->
            [update_time |-> IF c = special /\ c <= n THEN dt ELSE PlainTime, files |-> {}]]
  /\ FreshDirectory
  /\ pc = "start"
  /\ runs = 1
  /\ NoBackupYet
  /\ NoFileRunYet
  /\ UnitsIdle

NextBackup ==
  \/ BackupStart
  \/ \E k \in 0..Len(serverList) : BackupStartFails(SubSeq(serverList, 1, k))
  \/ Diff
  \/ StartWorker
  \/ SleepDone
  \/ AwaitRace
  \/ \E id \in ConvIds, outcome \in {"ok", "network", "auth", "validation", "storage", "storage_partial", "log"},
        logOk \in BOOLEAN : WorkerFinish(id, outcome, logOk)
  \/ BackupReturn
  \/ \E metadataWritten \in BOOLEAN : BackupReturnFails(metadataWritten)
  \/ \E truncated \in SUBSET ConvIds : Interrupt(truncated)
  \/ BackupAgain

SpecBackup == InitBackup /\ [][NextBackup]_vars

\* The file materialization alone, against an output directory earlier
\* invocations have left: the first k conversations stored (the odd ones
\* referencing one set of files, the even ones another), any downloaded
\* files, and a metadata.json with or without a failed-file list.
FailedLists == {l \in UNION {[1..n -> FileIds] : n \in 0..MaxFiles} :
                  \A i, j \in 1..Len(l) : i # j => l[i] # l[j]}

FilesStarts(limits) ==
  /\ options \in [concurrency : limits, delay : Delays,
                  incremental : {FALSE}, verbose : {FALSE}]
  /\ serverList = <<>>
  /\ serverDetail = [c \in ConvIds |-> [update_time |-> PlainTime, files |-> {}]]
  /\ \E k \in 0..MaxConvs, odd \in SUBSET FileIds, even \in SUBSET FileIds :
       conversationFiles = [c \in ConvIds |->
         IF c > k THEN NoFile
         ELSE Detail([update_time |-> PlainTime,
                      files |-> IF c % 2 = 1 THEN odd ELSE even])]
  /\ indexFile = NoFile
  /\ metadataFile \in
       {NoFile, [kind |-> "metadata", failedFiles |-> Absent]}
         \cup {saveFailedFiles(l) : l \in FailedLists}
  /\ filesDir \in SUBSET FileIds
  /\ pc = "scan"
  /\ runs = 1
  /\ NoBackupYet
  /\ NoFileRunYet
  /\ UnitsIdle

InitFiles == FilesStarts(1..MaxConcurrency)

NextFiles ==
  \/ FileScan
  \/ FileStartWorker
  \/ FileSleepDone
  \/ FileAwaitRace
  \/ \E id \in FileIds, outcome \in FileOutcomes : FileWorkerFinish(id, outcome)
  \/ FileReturn
  \/ FilesAgain

SpecFiles == InitFiles /\ [][NextFiles]_vars

\* The backup command run as `backup --incremental --download-files`, invoked
\* up to MaxRuns times against one output directory that starts fresh; each
\* listed conversation references any set of files.
CommandStarts(limits) ==
  /\ options \in [concurrency : limits, delay : Delays,
                  incremental : {TRUE}, verbose : {FALSE}]
  /\ \E n \in 0..MaxConvs, fs \in [ConvIds -> SUBSET FileIds] :
       /\ serverList = [i \in 1..n |-> [id |-> i, update_time |-> PlainTime]]
       /\ serverDetail = [c \in ConvIds |->
            [update_time |-> PlainTime, files |-> IF c <= n THEN fs[c] ELSE {}]]
  /\ FreshDirectory
  /\ pc = "start"
  /\ runs = 1
  /\ NoBackupYet
  /\ NoFileRunYet
  /\ UnitsIdle

Init == CommandStarts(1..MaxConcurrency)

Next ==
  \/ BackupStart
  \/ \E k \in 0..Len(serverList) : BackupStartFails(SubSeq(serverList, 1, k))
  \/ Diff
  \/ StartWorker
  \/ SleepDone
  \/ AwaitRace
  \/ \E id \in ConvIds, outcome \in {"ok", "network", "auth", "validation", "storage", "storage_partial", "log"},
        logOk \in BOOLEAN : WorkerFinish(id, outcome, logOk)
  \/ BackupReturn
  \/ \E metadataWritten \in BOOLEAN : BackupReturnFails(metadataWritten)
  \/ \E truncated \in SUBSET ConvIds : Interrupt(truncated)
  \/ FileScan
  \/ FileStartWorker
  \/ FileSleepDone
  \/ FileAwaitRace
  \/ \E id \in FileIds, outcome \in FileOutcomes : FileWorkerFinish(id, outcome)
  \/ FileReturn
  \/ InvokeAgain

Spec == Init /\ [][Next]_vars

\* --concurrency is parseInt(v, 10) of any argument, passed on unchecked:
\* the limits below 1 as well.
ConcurrencyOptions == {-1, 0} \cup (1..MaxConcurrency)

\* The backup command against a fresh output directory, or the file
\* materialization against a directory earlier invocations have left, with
\* any concurrency limit the command line accepts.
InitLimits == CommandStarts(ConcurrencyOptions) \/ FilesStarts(ConcurrencyOptions)

NextLimits == Next \/ FilesAgain

SpecLimits == InitLimits /\ [][NextLimits]_vars

\* No command runs: a function is exercised on its own.
NoCommand ==
  /\ options = [concurrency |-> 1, delay |-> 0, incremental |-> FALSE, verbose |-> FALSE]
  /\ serverList = <<>>
  /\ serverDetail = [c \in ConvIds |-> [update_time |-> PlainTime, files |-> {}]]
  /\ FreshDirectory
  /\ pc = "unit"
  /\ runs = 1
  /\ NoBackupYet
  /\ NoFileRunYet

\* One call of withRetry(fn, options): the defaults, or a maxRetries and a
\* maxDelay its caller overrides; fn fails or succeeds at each invocation.
InitRetry ==
  /\ retryOpts \in [maxRetries : 0..MaxMaxRetries, baseDelay : {DefaultBaseDelay},
                    maxDelay : {DefaultMaxDelay, 5000}]
  /\ NoRetryCall
  /\ NoExtractCall
  /\ NoScanCall
  /\ NoDownload
  /\ NoList
  /\ NoCommand

NextRetry ==
  \/ RetryReturn
  \/ \E error \in FnErrors, random \in Randoms : RetryCatch(error, random)
  \/ RetrySleepDone

SpecRetry == InitRetry /\ [][NextRetry]_vars

\* Most nodes of a mapping.
MaxNodes == 2

\* What content.parts, metadata.attachments and metadata.citations of one
\* message hold: nothing or one element.
PartsOfMessage ==
  {<<>>, <<TextPart>>,
   <<Part("image_asset_pointer", FILE_SERVICE_PREFIX, "file_1")>>,
   <<Part("image_asset_pointer", FILE_SERVICE_PREFIX, "file_2")>>,
   <<Part("image_asset_pointer", FILE_SERVICE_PREFIX, "")>>,
   <<Part("image_asset_pointer", "sediment://", "file_1")>>,
   <<Part("audio_asset_pointer", FILE_SERVICE_PREFIX, "file_1")>>}

AttachmentsOfMessage ==
  {<<>>, <<Attachment("file_1", "a.png")>>, <<Attachment("file_2", Undefined)>>,
   <<Attachment("", "a.png")>>}

CitationsOfMessage ==
  {<<>>, <<Citation("file_1", "inner.pdf", Undefined, Undefined)>>,
   <<Citation(Undefined, Undefined, "file_2", "outer.pdf")>>,
   <<Citation("", Undefined, "file_1", "outer.pdf")>>}

Nodes ==
  {NoMessage} \cup
    {Node(ps, as, cs) : ps \in PartsOfMessage, as \in AttachmentsOfMessage,
                        cs \in CitationsOfMessage}

\* extractFileReferences on a conversation of up to MaxNodes nodes.
InitExtract ==
  /\ detail \in UNION {[1..n -> Nodes] : n \in 0..MaxNodes}
  /\ extracted = None
  /\ retryOpts = DefaultRetryOptions
  /\ NoRetryCall
  /\ NoScanCall
  /\ NoDownload
  /\ NoList
  /\ NoCommand

NextExtract == Extract

SpecExtract == InitExtract /\ [][NextExtract]_vars

\* Most .json files of conversations/, and most projects.
MaxStoredFiles == 2
MaxProjects == 2

\* What a stored conversation can reference: file_1 as an attachment or as an
\* image, file_2 as a citation.
StoredFiles ==
  LET asAttachment == FileReference("file_1", "a.png", "attachment")
      asImage == FileReference("file_1", Undefined, "image_asset_pointer")
      cited == FileReference("file_2", "c.pdf", "citation")
  IN {Unparseable, Parsed(<<>>), Parsed(<<asAttachment>>), Parsed(<<asImage>>),
      Parsed(<<cited>>), Parsed(<<asAttachment, cited>>), Parsed(<<cited, asImage>>)}

\* scanAllConversations on an output directory: up to MaxStoredFiles files in
\* conversations/, up to MaxProjects projects holding at most one file each.
InitScan ==
  /\ \E main \in UNION {[1..n -> StoredFiles] : n \in 0..MaxStoredFiles},
        projects \in UNION {[1..n -> {<<>>} \cup {<<f>> : f \in StoredFiles}] :
                              n \in 0..MaxProjects} :
       outputTree = [main |-> main, projects |-> projects]
  /\ scanned = None
  /\ retryOpts = DefaultRetryOptions
  /\ NoRetryCall
  /\ NoExtractCall
  /\ NoDownload
  /\ NoList
  /\ NoCommand

NextScan == Scan

SpecScan == InitScan /\ [][NextScan]_vars

\* What files/<fileId> can hold when a run starts: nothing, an empty
\* directory, an empty subdirectory, a file, a file in a subdirectory.
FileDirs ==
  {NoDirectory,
   [dirs |-> {<<>>}, files |-> {}],
   [dirs |-> {<<>>, <<"dalle-generations">>}, files |-> {}],
   [dirs |-> {<<>>}, files |-> {<<"old.png">>}],
   [dirs |-> {<<>>, <<"dalle-generations">>}, files |-> {<<"dalle-generations", "x.webp">>}]}

\* The resolve responses: download_url and file_name, each missing, empty or
\* given.
ResolveResponses ==
  [download_url : {Undefined, "", "https://files/signed"},
   file_name : {Undefined, "", "server.png", "dalle-generations/x.webp"}]

\* processOne(ref) of downloadFiles for one reference, run after run.
InitDownload ==
  /\ dlRef \in {FileReference("file_1", name, "attachment") : name \in {Undefined, "", "ref.png"}}
  /\ fileDir \in FileDirs
  /\ NoDownloadCall
  /\ retryOpts = DefaultRetryOptions
  /\ NoRetryCall
  /\ NoExtractCall
  /\ NoScanCall
  /\ NoList
  /\ NoCommand

NextDownload ==
  \/ DownloadCheck
  \/ \E response \in ResolveResponses, error \in {None} \cup FnErrors :
       DownloadResolve(response, error)
  \/ \E error \in {None} \cup FnErrors : DownloadFetch(error)
  \/ \E ok \in BOOLEAN : DownloadMkdir(ok)
  \/ \E ok \in BOOLEAN, partial \in BOOLEAN : DownloadWrite(ok, partial)
  \/ DownloadAgain

SpecDownload == InitDownload /\ [][NextDownload]_vars

MaxTotal == 3
MaxPage == 2

\* The cursors a server gives.
Cursors == {NullCursor, Undefined, "", "c1", "a b"}

\* One of the three listers is called and consumed; the limit is the default
\* or a smaller one, the delay the default or none.
InitList ==
  /\ lister \in {"fetchAllConversations", "fetchProjectConversations", "fetchAllProjects"}
  /\ listOptions \in [limit : {1, 2, DefaultLimit}, delay : {0, DefaultDelay}]
  /\ lister # "fetchAllConversations" => listOptions.limit = DefaultLimit
  /\ NoListCall
  /\ retryOpts = DefaultRetryOptions
  /\ NoRetryCall
  /\ NoExtractCall
  /\ NoScanCall
  /\ NoDownload
  /\ NoCommand

NextList ==
  \/ ListTest
  \/ \E ok \in BOOLEAN, reported \in 0..MaxTotal, n \in 0..MaxPage : ListResponse(ok, reported, n)
  \/ ListYield
  \/ ListPageDone
  \/ ListSleepDone
  \/ ListStop
  \/ ProjectConversationsTest
  \/ \E ok \in BOOLEAN, next \in Cursors, n \in 0..MaxPage :
       ProjectConversationsResponse(ok, next, n)
  \/ ProjectConversationsYield
  \/ ProjectConversationsPageDone
  \/ ProjectConversationsSleepDone
  \/ ProjectsRequest
  \/ \E ok \in BOOLEAN, next \in Cursors, n \in 0..MaxPage : ProjectsResponse(ok, next, n)
  \/ ProjectsSleepDone

SpecList == InitList /\ [][NextList]_vars

\* ------------------------------------------------------------- properties
\* The instant a summary update time denotes, in fixed-point seconds, when it
\* denotes one: a number, or a date string Date can parse.
RemoteKnown(t) == t.kind = "number" \/ (t.kind = "string" /\ t.form = "iso")
RemoteInstant(t) ==
  IF t.kind = "number" THEN t.n ELSE Fx((t.min * 60) + t.sec) + t.ms

LocalKnown(id) ==
  conversationFiles[id].kind = "detail" /\ conversationFiles[id].update_time.kind = "number"

\* The ids metadata.json lists as failed files.
PersistedIds(m) ==
  IF m.kind = "metadata" /\ m.failedFiles.kind = "list"
    THEN Range(m.failedFiles.ids)
    ELSE {}

DiffStep == pc = "diff" /\ pc' = "fill"
Queued(conv) == \E i \in 1..Len(downloadQueue') : downloadQueue'[i] = conv

\* C1: a backup run that returns a result has
\* totalConversations = downloaded + skipped + failed.
C1_BackupAccounting ==
  result.kind = "result" =>
    result.totalConversations = result.downloaded + result.skipped + result.failed

\* C2: after a downloadFiles run, total = downloaded + skipped + failed, and
\* total counts exactly the scanned references that are not in the denylist:
\* the excluded ones are in none of the four numbers.
C2_FileAccounting ==
  fileResult.kind = "result" =>
    /\ fileResult.total = fileResult.downloaded + fileResult.skipped + fileResult.failed
    /\ fileResult.total = Cardinality(Range(allRefs) \ Range(skipFileIds))
    /\ fileResult.total + skippedKnown = Len(allRefs)

C2_Witness ==
  /\ fileResult.kind = "result"
  /\ skippedKnown >= 1
  /\ fileResult.failed + fileResult.downloaded >= 1

\* C3: in both batches, at every instant at most `concurrency` workers have
\* been started and have not completed.
C3_ConcurrencyBound ==
  /\ Cardinality(inProgress) <= options.concurrency
  /\ Cardinality(fileInProgress) <= options.concurrency

C3_Witness ==
  /\ Cardinality(fileInProgress) = options.concurrency
  /\ queue # <<>>
  /\ result.kind = "result"
  /\ result.downloaded + result.failed > options.concurrency

\* C4: a worker's failure is recorded as that item's failed outcome and never
\* escapes the batch; every queued item is started exactly once.
C4_FailuresStayInBatch ==
  /\ rejected = {}
  /\ \A c \in ConvIds : detailRequests[c] <= 1
  /\ \A f \in FileIds : fileRequests[f] <= 1
  /\ Len(errors) = failed
  /\ Len(failedFileIds) = fileFailed

\* C5: a file id that failed in an earlier invocation is not in the download
\* batch of a later invocation.
C5_FailedNeverRetried ==
  pc \in {"ffill", "fsleep", "frace"} =>
    \A f \in Range(refs) : f \in everFailed => f \in Range(failedFileIds)

\* C6: the failed-file list a file materialization run persists is the union
\* of the list on disk when it started and the run's failedFileIds; no step
\* drops a listed id.
C6_PersistedUnion ==
  [][/\ PersistedIds(metadataFile) \subseteq PersistedIds(metadataFile')
     /\ (pc = "ffill" /\ pc' = "exited") =>
          PersistedIds(metadataFile') =
            PersistedIds(metadataFile) \cup Range(failedFileIds)]_vars

C6_Witness ==
  /\ pc = "exited"
  /\ fileResult.kind = "result"
  /\ fileResult.failedFileIds # <<>>
  /\ \E f \in PersistedIds(metadataFile) : f \notin Range(allRefs)
  /\ Range(fileResult.failedFileIds) \subseteq PersistedIds(metadataFile)

\* C7: during a file materialization run, a referenced id that metadata.json
\* lists as failed is not in the batch, is never attempted, is not in
\* failedFileIds, and is counted in skippedKnown.
C7_DenylistExcluded ==
  pc \in {"ffill", "fsleep", "frace"} =>
    /\ \A f \in PersistedIds(metadataFile) :
         /\ f \notin Range(refs)
         /\ f \notin fileInProgress
         /\ fileRequests[f] = 0
         /\ f \notin Range(failedFileIds)
    /\ skippedKnown = Cardinality(PersistedIds(metadataFile) \cap Range(allRefs))
    /\ fileDownloaded + fileFailed + fileSkipped <=
         Cardinality(Range(allRefs) \ PersistedIds(metadataFile))

C7_Witness ==
  /\ pc = "ffill"
  /\ skippedKnown = 1
  /\ fileCompleted = 1
  /\ fileDownloaded + fileFailed = 1

\* C8: the diff skips a listed conversation exactly when incremental mode is
\* on, the local copy has a known update time, the summary's update time is
\* known and the local one is >= it; only queued conversations are requested.
C8_SkipRule ==
  [][/\ DiffStep =>
          /\ \A i \in 1..Len(conversations) :
               LET conv == conversations[i] IN
                 ~Queued(conv) <=>
                   /\ options.incremental
                   /\ LocalKnown(conv.id)
                   /\ RemoteKnown(conv.update_time)
                   /\ conversationFiles[conv.id].update_time.n >= RemoteInstant(conv.update_time)
          /\ skipped' = Len(conversations) - Len(downloadQueue')
     /\ \A c \in ConvIds :
          detailRequests'[c] > detailRequests[c] =>
            downloadQueue # <<>> /\ Head(downloadQueue).id = c]_vars

C8_Witness ==
  /\ pc = "fill"
  /\ options.incremental
  /\ skipped = 1
  /\ Len(downloadQueue) = 1
  /\ inProgress = {}

\* C9: a date string decides the skip as the number of epoch seconds of the
\* same instant does: with a local update time of 100, "1970-01-01T00:01:40.000Z"
\* is skipped and 150 is queued.
C9_DateStringAsSeconds ==
  [][(DiffStep /\ options.incremental) =>
       \A i \in 1..Len(conversations) :
         LET conv == conversations[i]
             local == conversationFiles[conv.id]
         IN LocalKnown(conv.id) =>
              /\ (conv.update_time.kind = "string" /\ conv.update_time.form = "iso") =>
                   (Queued(conv) <=> local.update_time.n < RemoteInstant(conv.update_time))
              /\ (local.update_time = Num(Fx(100)) /\ conv.update_time = IsoString(1, 40, 0)) =>
                   ~Queued(conv)
              /\ (local.update_time = Num(Fx(100)) /\ conv.update_time = Num(Fx(150))) =>
                   Queued(conv)
              /\ \A j \in 1..Len(conversations) :
                   LET other == conversations[j] IN
                     (/\ conv.update_time.kind = "string"
                      /\ conv.update_time.form = "iso"
                      /\ other.update_time.kind = "number"
                      /\ other.update_time.n = RemoteInstant(conv.update_time)
                      /\ conversationFiles[other.id] = local) =>
                       (Queued(conv) <=> Queued(other))]_vars

C9_Witness ==
  /\ pc = "fill"
  /\ options.incremental
  /\ inProgress = {}
  /\ Len(conversations) = 2
  /\ \E i \in 1..2 :
       /\ conversations[i].update_time = IsoString(1, 40, 0)
       /\ conversationFiles[conversations[i].id].kind = "detail"
       /\ conversationFiles[conversations[i].id].update_time = Num(Fx(100))
  /\ skipped = 2

\* C10 as stated: the second of two incremental runs with no remote change
\* downloads nothing and skips every listed conversation.
C10_SecondRunSkipsAll ==
  (pc = "returned" /\ runs = 2 /\ options.incremental) =>
    (result.downloaded = 0 /\ result.skipped = result.totalConversations)

\* Every listed conversation is stored as the server has it, with a known
\* update time that is not before its summary's.
AllMaterializedAndCurrent ==
  \A i \in 1..Len(serverList) :
    LET conv == serverList[i] IN
      /\ conversationFiles[conv.id] = Detail(serverDetail[conv.id])
      /\ LocalKnown(conv.id)
      /\ RemoteKnown(conv.update_time)
      /\ conversationFiles[conv.id].update_time.n >= RemoteInstant(conv.update_time)

\* C10 amended: when the second incremental run starts with every listed
\* conversation materialized and current, it skips all of them, and a run
\* that skipped everything returns downloaded = 0 and skipped = total.
C10_SecondRunSkipsMaterialized ==
  [][/\ (DiffStep /\ runs = 2 /\ options.incremental /\ AllMaterializedAndCurrent) =>
          (downloadQueue' = <<>> /\ skipped' = Len(conversations))
     /\ (pc \in {"fill", "sleep", "race"}) => skipped' = skipped
     /\ (pc = "fill" /\ pc' = "returned" /\ skipped = Len(conversations)) =>
          /\ result'.downloaded = 0
          /\ result'.failed = 0
          /\ result'.skipped = result'.totalConversations]_vars

C10_Witness ==
  /\ pc = "returned"
  /\ runs = 2
  /\ options.incremental
  /\ result.totalConversations = 2
  /\ result.skipped = 2
  /\ result.downloaded = 0

\* An invocation of fn has just thrown (the step is a RetryCatch).
FnThrew == fnCalls' = fnCalls + 1 /\ retryPc' # "returned"

\* C11: when fn throws an AuthenticationError or a NetworkError with status
\* 404, at any attempt, withRetry throws that error at once: no delay is
\* computed or slept, onRetry is not called, and fn is not invoked again.
C11_NonRetryableRethrown ==
  [][/\ (FnThrew /\ lastError' \in {AuthenticationError, NetworkError(404)}) =>
          /\ retryPc' = "thrown"
          /\ thrown' = lastError'
          /\ sleeps' = sleeps
          /\ calc' = calc
          /\ onRetryCalls' = onRetryCalls
     /\ retryPc = "thrown" => (fnCalls' = fnCalls /\ sleeps' = sleeps /\ retryPc' = "thrown")]_vars

C11_Witness ==
  /\ retryPc = "thrown"
  /\ thrown = NetworkError(404)
  /\ attempt >= 1
  /\ attempt < retryOpts.maxRetries
  /\ fnCalls = attempt + 1
  /\ sleeps = attempt

\* withRetry gave up on a retryable error: every attempt failed with one.
GaveUpOnRetryable ==
  /\ retryPc = "thrown"
  /\ thrown \notin {AuthenticationError, NetworkError(404)}

\* C12 as stated: when every attempt fails with a retryable error, fn is
\* invoked maxRetries times in total and the last attempt's error is thrown.
C12_InvokedMaxRetriesTimes ==
  GaveUpOnRetryable => (fnCalls = retryOpts.maxRetries /\ thrown = lastError)

\* C12 amended: when every attempt fails with a retryable error, fn is
\* invoked maxRetries + 1 times in total (the first attempt and maxRetries
\* retries, each after a delay) and the last attempt's error is thrown.
C12_InvokedMaxRetriesPlusOne ==
  GaveUpOnRetryable =>
    /\ fnCalls = retryOpts.maxRetries + 1
    /\ sleeps = retryOpts.maxRetries
    /\ attempt = retryOpts.maxRetries
    /\ thrown = lastError

C12_Witness ==
  /\ retryPc = "thrown"
  /\ retryOpts.maxRetries = DefaultMaxRetries
  /\ thrown = NetworkError(500)
  /\ fnCalls = 6

\* C13: the delay computed at attempt a, which is the one slept, is
\* min(baseDelay * 2^a + jitter, maxDelay) with 0 <= jitter < 0.3 * baseDelay * 2^a;
\* it is at most maxDelay and at least min(baseDelay * 2^a, maxDelay); with
\* baseDelay 1000 and maxDelay 60000 the pre-jitter delay of attempt 5 is 32000.
C13_BackoffDelay ==
  calc # None =>
    LET exponential == Fx(retryOpts.baseDelay) * Pow2(calc.attempt) IN
      /\ calc.exponentialDelay = exponential
      /\ 0 <= calc.jitter
      /\ 10 * calc.jitter < 3 * exponential
      /\ calc.delay = Min(exponential + calc.jitter, Fx(retryOpts.maxDelay))
      /\ calc.delay <= Fx(retryOpts.maxDelay)
      /\ calc.delay >= Min(exponential, Fx(retryOpts.maxDelay))
      /\ onRetryCalls.delay = calc.delay
      /\ retryPc = "sleeping" => calc.attempt = attempt
      /\ (retryOpts.baseDelay = 1000 /\ retryOpts.maxDelay = 60000 /\ calc.attempt = 5) =>
           calc.exponentialDelay = Fx(32000)

C13_Witness ==
  /\ retryPc = "sleeping"
  /\ retryOpts.baseDelay = 1000
  /\ retryOpts.maxDelay = 60000
  /\ calc.attempt = 5
  /\ calc.jitter > 0
  /\ calc.delay = calc.exponentialDelay + calc.jitter

\* C14: an AuthenticationError met while one conversation is downloaded is
\* not recorded as that conversation's failure: it aborts the run.
C14_AuthenticationAborts ==
  \A i \in 1..Len(errors) : errors[i].error # "auth"

\* Every place of the mapping that references a file: the node, the location
\* within the message (1 image pointer, 2 attachment, 3 citation), the index
\* there, and the reference it stands for.
Occurrences(nodes) ==
  UNION {
    {[n |-> n, loc |-> 1, k |-> k,
      ref |-> FileReference(nodes[n].parts[k].rest, Undefined, "image_asset_pointer")] :
        k \in {j \in 1..Len(nodes[n].parts) :
                 /\ nodes[n].parts[j].content_type = "image_asset_pointer"
                 /\ nodes[n].parts[j].prefix = "file-service://"}}
    \cup
    {[n |-> n, loc |-> 2, k |-> k,
      ref |-> FileReference(nodes[n].attachments[k].id, nodes[n].attachments[k].name,
                            "attachment")] : k \in 1..Len(nodes[n].attachments)}
    \cup
    {[n |-> n, loc |-> 3, k |-> k,
      ref |-> LET c == nodes[n].citations[k] IN
                FileReference(IF c.metadata_file_id = Undefined THEN c.file_id
                                ELSE c.metadata_file_id,
                              IF c.metadata_title = Undefined THEN c.title
                                ELSE c.metadata_title,
                              "citation")] : k \in 1..Len(nodes[n].citations)}
    : n \in {m \in 1..Len(nodes) : nodes[m].message}}

\* The occurrences that name a file: the identifier is a non-empty string.
NamedOccurrences(nodes) ==
  {o \in Occurrences(nodes) : o.ref.fileId \notin {"", Undefined}}

Before(o1, o2) ==
  \/ o1.n < o2.n
  \/ o1.n = o2.n /\ o1.loc < o2.loc
  \/ o1.n = o2.n /\ o1.loc = o2.loc /\ o1.k < o2.k

\* The first occurrence of a file identifier in scan order.
FirstOccurrence(nodes, fileId) ==
  CHOOSE o \in NamedOccurrences(nodes) :
    /\ o.ref.fileId = fileId
    /\ \A other \in NamedOccurrences(nodes) :
         other.ref.fileId = fileId => (other = o \/ Before(o, other))

\* C15: extractFileReferences returns one entry for each file identifier
\* referenced by an image pointer with the file-service:// prefix, an
\* attachment or a citation of any node, and no other entry; the entry is the
\* first occurrence in scan order, so an attachment and a citation of one
\* message naming the same file give one entry, the attachment's.
C15_OneEntryPerFile ==
  extracted # None =>
    LET refsOut == extracted.refs IN
      /\ \A i, j \in 1..Len(refsOut) : refsOut[i].fileId = refsOut[j].fileId => i = j
      /\ {refsOut[i].fileId : i \in 1..Len(refsOut)} =
           {o.ref.fileId : o \in NamedOccurrences(detail)}
      /\ \A i \in 1..Len(refsOut) :
           refsOut[i] = FirstOccurrence(detail, refsOut[i].fileId).ref
      /\ \A i, j \in 1..Len(refsOut) :
           i < j => Before(FirstOccurrence(detail, refsOut[i].fileId),
                           FirstOccurrence(detail, refsOut[j].fileId))
      /\ detail = <<Node(<<>>, <<Attachment("file_1", "a.png")>>,
                         <<Citation("file_1", "inner.pdf", Undefined, Undefined)>>)>> =>
           refsOut = <<FileReference("file_1", "a.png", "attachment")>>

C15_Witness ==
  /\ extracted # None
  /\ Len(detail) = 2
  /\ detail[2].attachments = <<Attachment("file_1", "a.png")>>
  /\ detail[2].citations = <<Citation("file_1", "inner.pdf", Undefined, Undefined)>>
  /\ detail[1].parts = <<Part("image_asset_pointer", "file-service://", "file_2")>>
  /\ detail[1].citations = <<Citation(Undefined, Undefined, "file_2", "outer.pdf")>>
  /\ extracted.refs = <<FileReference("file_2", Undefined, "image_asset_pointer"),
                        FileReference("file_1", "a.png", "attachment")>>

\* The files of the tree in the order they are found: conversations/ first,
\* then the projects in turn.
FoundFiles(tree) == tree.main \o Flatten(tree.projects)

\* The references of the readable files, as (file, index, reference).
FoundRefs(tree) ==
  UNION {{[file |-> i, k |-> k, ref |-> FoundFiles(tree)[i].refs[k]] :
            k \in 1..Len(FoundFiles(tree)[i].refs)} :
         i \in {j \in 1..Len(FoundFiles(tree)) : FoundFiles(tree)[j].kind = "detail"}}

FoundBefore(o1, o2) == o1.file < o2.file \/ (o1.file = o2.file /\ o1.k < o2.k)

\* C16: scanAllConversations returns at most one reference per file
\* identifier over the files of conversations/ and of every
\* projects/<name>/conversations/: the one found first; a batch built from
\* it holds each identifier once.
C16_ScanDeduplicates ==
  scanned # None =>
    LET out == scanned.refs
        found == FoundRefs(outputTree)
    IN /\ \A i, j \in 1..Len(out) : out[i].fileId = out[j].fileId => i = j
       /\ {out[i].fileId : i \in 1..Len(out)} = {o.ref.fileId : o \in found}
       /\ \A i \in 1..Len(out) :
            \E o \in found :
              /\ o.ref = out[i]
              /\ \A other \in found :
                   other.ref.fileId = out[i].fileId => (other = o \/ FoundBefore(o, other))

C16_Witness ==
  /\ scanned # None
  /\ Len(outputTree.main) = 1
  /\ outputTree.main[1].refs = <<FileReference("file_1", "a.png", "attachment")>>
  /\ Len(outputTree.projects) = 2
  /\ outputTree.projects[1] = <<Parsed(<<FileReference("file_2", "c.pdf", "citation"),
                                         FileReference("file_1", Undefined, "image_asset_pointer")>>)>>
  /\ outputTree.projects[2] = <<Unparseable>>
  /\ scanned.refs = <<FileReference("file_1", "a.png", "attachment"),
                      FileReference("file_2", "c.pdf", "citation")>>

\* files/<fileId> holds a regular file at some depth.
HoldsRegularFile(tree) ==
  \E path \in tree.files : \A n \in 0..(Len(path) - 1) : SubSeq(path, 1, n) \in tree.dirs

\* C17: a reference whose directory files/<fileId> holds a regular file at
\* any depth is counted as skipped and no resolve or fetch request is issued
\* for it; a successful download leaves such a file, so every later run skips.
C17_ExistingFileSkipped ==
  [][/\ (dlPc = "check" /\ HoldsRegularFile(fileDir)) =>
          /\ stats' = [stats EXCEPT !.skipped = @ + 1]
          /\ requests' = requests
          /\ dlPc' = "done"
     /\ (dlPc # "done" /\ requests' # requests) => ~HoldsRegularFile(fileDir)
     /\ (dlPc # "done" /\ stats'.downloaded = stats.downloaded + 1) =>
          HoldsRegularFile(fileDir')
     /\ (dlRuns.downloaded /\ dlPc = "check") =>
          stats'.skipped = 1 /\ requests' = [resolve |-> 0, fetch |-> 0]]_vars

C17_Witness ==
  /\ dlRuns.count = 2
  /\ dlRuns.downloaded
  /\ dlPc = "done"
  /\ stats = [downloaded |-> 0, skipped |-> 1, failed |-> 0]
  /\ requests = [resolve |-> 0, fetch |-> 0]
  /\ <<"dalle-generations", "x.webp">> \in fileDir.files

\* Both steps of processOne succeeded: the resolve response holds a
\* download_url and fetchRaw returned the bytes.
BothStepsSucceeded ==
  /\ meta # None
  /\ StringTruthy(meta.download_url)
  /\ buffer

\* C18: files/<fileId> is created and the file written only after the
\* resolve step and the fetch step both succeeded; a failure of either step
\* creates and writes nothing under files/<fileId>.
C18_WriteAfterBothSteps ==
  [][/\ fileDir' # fileDir => BothStepsSucceeded
     /\ (dlPc \in {"resolve", "fetch"} /\ stats'.failed = stats.failed + 1) =>
          /\ fileDir' = fileDir
          /\ dlPc' = "done"
          /\ written' = None]_vars

C18_Witness ==
  /\ dlPc = "done"
  /\ stats = [downloaded |-> 0, skipped |-> 0, failed |-> 1]
  /\ requests = [resolve |-> 1, fetch |-> 1]
  /\ ~buffer
  /\ fileDir = NoDirectory

\* A name that is given: a string that is not empty.
Given(name) == name # Undefined /\ name # ""

\* C19, as stated: the file is written under the server's file_name when it
\* is present and non-empty, else under the reference's filename when that is
\* present, else under the bare file identifier.
C19_FilenameWhenPresent ==
  [][(dlPc = "write" /\ stats'.downloaded = stats.downloaded + 1) =>
       written' = PathOf(IF Given(meta.file_name) THEN meta.file_name
                         ELSE IF dlRef.filename # Undefined THEN dlRef.filename
                         ELSE dlRef.fileId)]_vars

\* C19, amended: the file is written under the server's file_name when it is
\* present and non-empty, else under the reference's filename when that is
\* present and non-empty, else under the bare file identifier.
C19_FilenamePrecedence ==
  [][(dlPc = "write" /\ stats'.downloaded = stats.downloaded + 1) =>
       /\ written' = PathOf(IF Given(meta.file_name) THEN meta.file_name
                            ELSE IF Given(dlRef.filename) THEN dlRef.filename
                            ELSE dlRef.fileId)
       /\ written' \in fileDir'.files]_vars

\* No server name and an empty filename in the reference: the file is
\* written under the file identifier.
C19_Witness ==
  /\ dlPc = "done"
  /\ stats.downloaded = 1
  /\ meta # None
  /\ ~Given(meta.file_name)
  /\ dlRef.filename = ""
  /\ written = <<"file_1">>
  /\ <<"file_1">> \in fileDir.files

\* C20: fetchAllConversations requests the offsets 0, limit, 2*limit, ... in
\* ascending order, issues at least one request, and issues no request once
\* offset >= the total the server reported.
C20_OffsetsAscending ==
  [][lister = "fetchAllConversations" =>
     /\ \A i \in 1..Len(listRequests') : listRequests'[i] = (i - 1) * listOptions.limit
     /\ \A i \in 1..(Len(listRequests') - 1) : listRequests'[i] < listRequests'[i + 1]
     /\ listPc' \in {"returned", "threw"} => Len(listRequests') >= 1
     /\ (total # Infinity /\ offset >= total.value) => listRequests' = listRequests]_vars

C20_Witness ==
  /\ lister = "fetchAllConversations"
  /\ listPc = "returned"
  /\ listOptions.limit = 2
  /\ listRequests = <<0, 2>>
  /\ total = Number(3)
  /\ offset = 4

\* What the server reads from a cursor parameter.
decodeURIComponent(c) ==
  CASE c = "a%20b" -> "a b"
    [] OTHER -> c

\* The last response of a cursor lister gave a null or absent cursor.
LastCursorMissing ==
  /\ returnedCursors # <<>>
  /\ returnedCursors[Len(returnedCursors)] \in {NullCursor, Undefined}

\* C21: fetchProjectConversations and fetchAllProjects send, for every page
\* after the first, the cursor the previous page returned, and once a page
\* returns a null or absent cursor they issue no request, take no delay and
\* end.
C21_CursorFollowed ==
  [][(lister \in {"fetchProjectConversations", "fetchAllProjects"}) =>
       (/\ Len(returnedCursors') <= Len(cursorRequests')
        /\ \A i \in 2..Len(cursorRequests') :
             decodeURIComponent(cursorRequests'[i]) = returnedCursors'[i - 1]
        /\ LastCursorMissing => (/\ cursorRequests' = cursorRequests
                                 /\ listSleeps' = listSleeps
                                 /\ listPc' \in {"yield", "test", "returned", "stopped"}
                                 /\ (listPc = "test" => listPc' = "returned"))
        /\ (lister = "fetchAllProjects" /\ LastCursorMissing') => listPc' = "returned")
    ]_vars

C21_Witness ==
  /\ lister = "fetchProjectConversations"
  /\ listPc = "returned"
  /\ cursorRequests = <<"0", "a%20b">>
  /\ returnedCursors = <<"a b", NullCursor>>
  /\ Len(listed) = 2

\* The listing requests issued so far, by whichever lister runs.
RequestsIssued == Len(listRequests) + Len(cursorRequests)

\* C22: the generators request and hand over their pages in sequence: a
\* request is issued only when none is outstanding and every item of the
\* pages before has been consumed, and after the consumer stopped early no
\* request is issued.
C22_PagesInSequence ==
  [][(lister \in {"fetchAllConversations", "fetchProjectConversations"}) =>
       (/\ RequestsIssued' # RequestsIssued =>
             (/\ RequestsIssued' = RequestsIssued + 1
              /\ listPc = "test"
              /\ listPc' = "fetch"
              /\ page = <<>>
              /\ Len(listed) = fetched)
        /\ listPc = "fetch" => RequestsIssued' = RequestsIssued
        /\ listPc = "stopped" => (RequestsIssued' = RequestsIssued /\ listPc' = "stopped"))
    ]_vars

C22_Witness ==
  /\ lister = "fetchAllConversations"
  /\ listPc = "stopped"
  /\ listRequests = <<0, 2>>
  /\ listed = <<1, 2, 3>>
  /\ page = <<4>>

\* C23: the download progress callback is called once per conversation of
\* the batch, right after completed++, so completed grows by one per call,
\* never decreases within a run, and the run ends with every conversation
\* counted: completed, with the workers still to finish, makes up the total.
C23_ProgressOncePerItem ==
  [][/\ pc # "start" => completed' >= completed
     /\ (pc \in {"sleep", "race"} /\ (inProgress' # inProgress \/ rejected' # rejected)) =>
          completed' = completed + 1
     /\ (pc \notin {"start", "returned", "aborted"} /\ pc' \in {"returned", "aborted"}) =>
          completed' + Cardinality(inProgress' \ rejected') = Len(conversations')]_vars

\* C24: when the response fails its shape validation (fn throws the
\* ZodError of parseResponse), withRetry throws it at once: no delay is
\* slept and the request is not made again.
C24_ValidationNotRetried ==
  [][(FnThrew /\ lastError' = ZodError) =>
       /\ retryPc' = "thrown"
       /\ thrown' = ZodError
       /\ sleeps' = sleeps
       /\ onRetryCalls' = onRetryCalls]_vars

C26_RetryAfterIgnored ==
  [][(FnThrew /\ lastError'.name = "RateLimitError" /\ attempt < retryOpts.maxRetries) =>
       /\ retryPc' = "sleeping"
       /\ sleeps' = sleeps + 1
       /\ calc'.exponentialDelay = Fx(retryOpts.baseDelay * Pow2(attempt))
       /\ calc'.delay = Min(calc'.exponentialDelay + calc'.jitter, Fx(retryOpts.maxDelay))
       /\ onRetryCalls'.delay = calc'.delay]_vars

\* A retry after a RateLimitError that carried the hint 5000: the delay is
\* the backoff of the attempt.
C26_Witness ==
  /\ retryPc = "sleeping"
  /\ lastError = RateLimitError(Num(5000))
  /\ attempt = 1
  /\ calc.exponentialDelay = Fx(2000)
  /\ calc.delay = calc.exponentialDelay + calc.jitter
  /\ calc.delay # Fx(5000)

\* The conversations of the listing whose detail file is missing or cannot
\* be parsed.
WithoutLocalCopy ==
  {i \in 1..Len(conversations) :
     conversationFiles[conversations[i].id].kind \in {"nofile", "corrupt"}}

\* C27: whatever an earlier run left behind, failed or interrupted, the diff
\* of a run never skips a conversation whose detail file is missing or
\* unreadable: it is queued for download and not counted as skipped.
C27_NoLocalCopyNeverSkipped ==
  [][(pc = "diff" /\ pc' = "fill") =>
       /\ \A i \in WithoutLocalCopy :
            \E k \in 1..Len(downloadQueue') : downloadQueue'[k] = conversations[i]
       /\ skipped' <= Len(conversations) - Cardinality(WithoutLocalCopy)]_vars

\* The second, incremental run after a first one that never wrote its
\* metadata: conversation 1 is skipped, conversation 2, whose file was left
\* truncated, is queued again.
C27_Witness ==
  /\ runs = 2
  /\ options.incremental
  /\ pc = "fill"
  /\ metadataFile = NoFile
  /\ Len(conversations) = 2
  /\ conversationFiles[2] = Corrupt
  /\ skipped = 1
  /\ Len(downloadQueue) = 1
  /\ downloadQueue[1].id = 2

\* C28: when the listing of a run throws, backup() throws: no result is
\* produced, no detail request is issued, and index.json, metadata.json and
\* the conversation files stay as they were, for good.
C28_FailedListingAborts ==
  [][/\ (pc = "start" /\ pc' # "diff") =>
          /\ pc' = "aborted"
          /\ result' = result
          /\ detailRequests' = detailRequests
          /\ indexFile' = indexFile
          /\ metadataFile' = metadataFile
          /\ conversationFiles' = conversationFiles
     /\ pc = "aborted" =>
          /\ result' = result
          /\ detailRequests' = detailRequests
          /\ indexFile' = indexFile
          /\ metadataFile' = metadataFile
          /\ conversationFiles' = conversationFiles]_vars

\* The second run's listing failed: the index and the metadata are those of
\* the first run, which had listed and stored one conversation.
C28_Witness ==
  /\ runs = 2
  /\ pc = "aborted"
  /\ Len(serverList) = 2
  /\ inProgress = {}
  /\ rejected = {}
  /\ downloadQueue = <<>>
  /\ indexFile = Index(serverList)
  /\ metadataFile # NoFile
  /\ detailRequests = [c \in ConvIds |-> 1]

\* C29: before each retry withRetry calls onRetry once, before it sleeps,
\* with the error just caught, the number attempt + 1 of the attempt that
\* failed and the delay it then sleeps; it does not call it when it throws
\* (a non-retryable error, or the last attempt), so the numbers it passes
\* over one call of withRetry are 1, 2, ..., k with k <= maxRetries.
C29_ObserverBeforeEachRetry ==
  [][/\ onRetryCalls'.count \in {onRetryCalls.count, onRetryCalls.count + 1}
     /\ onRetryCalls'.count = onRetryCalls.count + 1 =>
          (/\ FnThrew
           /\ retryPc' = "sleeping"
           /\ sleeps' = sleeps + 1
           /\ onRetryCalls'.error = lastError'
           /\ ~(lastError' \in {AuthenticationError, NetworkError(404)})
           /\ onRetryCalls'.attempt = attempt + 1
           /\ onRetryCalls'.attempt = onRetryCalls'.count
           /\ onRetryCalls'.attempt <= retryOpts.maxRetries
           /\ onRetryCalls'.delay = calc'.delay)
     /\ sleeps' # sleeps => onRetryCalls'.count = onRetryCalls.count + 1
     /\ retryPc' = "thrown" => onRetryCalls' = onRetryCalls]_vars

C29_Witness ==
  /\ retryPc = "sleeping"
  /\ onRetryCalls.count = 2
  /\ onRetryCalls.attempt = 2
  /\ onRetryCalls.error = NetworkError(500)
  /\ onRetryCalls.delay = calc.delay
  /\ attempt = 1
  /\ sleeps = 2

\* C30: with a delay > 0 a lister sleeps that delay once after every page
\* that is followed by another request, before that request, and does not
\* sleep after its last page; with no delay it never sleeps.
C30_DelayBetweenPages ==
  [][/\ \A i \in 1..Len(listSleeps') : listSleeps'[i] = listOptions.delay
     /\ listOptions.delay = 0 => listSleeps' = <<>>
     /\ (listOptions.delay > 0 /\ RequestsIssued' = RequestsIssued + 1) =>
          Len(listSleeps) = RequestsIssued
     /\ (listOptions.delay > 0 /\ listPc' = "returned") =>
          Len(listSleeps') = RequestsIssued' - 1]_vars

\* A pass of the inner loop took the head of the queue and started its worker.
Dequeued ==
  /\ pc = "fill"
  /\ downloadQueue # <<>>
  /\ downloadQueue' = Tail(downloadQueue)

FileDequeued ==
  /\ pc = "ffill"
  /\ queue # <<>>
  /\ queue' = Tail(queue)

\* C31: with a delay > 0 the scheduler sleeps once after a dequeue that
\* leaves items in the queue and not after the dequeue of the last item; a
\* sleep begins only with a dequeue, never with the completion of a worker,
\* and ends back in the loop with the queue as it was.  Without a delay the
\* scheduler never sleeps.
C31_DelayOncePerDequeue ==
  [][/\ (options.delay > 0 /\ Dequeued) => (pc' = "sleep" <=> downloadQueue' # <<>>)
     /\ (options.delay > 0 /\ FileDequeued) => (pc' = "fsleep" <=> queue' # <<>>)
     /\ (pc # "sleep" /\ pc' = "sleep") => (options.delay > 0 /\ Dequeued)
     /\ (pc # "fsleep" /\ pc' = "fsleep") => (options.delay > 0 /\ FileDequeued)
     /\ (pc = "sleep" /\ pc' # "sleep") =>
          (pc' \in {"fill", "interrupted"} /\ downloadQueue' = downloadQueue
             /\ detailRequests' = detailRequests)
     /\ (pc = "fsleep" /\ pc' # "fsleep") => (pc' = "ffill" /\ queue' = queue)
     /\ (pc = "sleep" /\ completed' # completed) => pc' = "sleep"
     /\ (pc = "fsleep" /\ fileCompleted' # fileCompleted) => pc' = "fsleep"]_vars

\* The first worker completed while the scheduler sleeps before the second start.
C31_Witness ==
  /\ options.delay > 0
  /\ pc = "sleep"
  /\ Len(downloadQueue) = 1
  /\ inProgress = {}
  /\ completed = 1
  /\ detailRequests = [c \in ConvIds |-> IF c = 1 THEN 1 ELSE 0]

\* An item is pending and fewer than concurrency tasks are in flight.
CanStart == downloadQueue # <<>> /\ Cardinality(inProgress) < options.concurrency
FileCanStart == queue # <<>> /\ Cardinality(fileInProgress) < options.concurrency

\* C32: the scheduler begins to wait for a completion only at capacity or
\* with an empty queue; with an item pending and room in flight its step
\* out of the loop test starts the worker of the head of the queue, so the
\* items are started in queue order.
C32_StartsBeforeWaiting ==
  [][/\ (pc # "race" /\ pc' = "race") =>
          (pc = "fill" /\ ~CanStart /\ inProgress # {})
     /\ (pc # "frace" /\ pc' = "frace") =>
          (pc = "ffill" /\ ~FileCanStart /\ fileInProgress # {})
     /\ (pc = "fill" /\ CanStart /\ pc' # "interrupted") =>
          (/\ Dequeued
           /\ inProgress' = inProgress \cup {Head(downloadQueue).id}
           /\ detailRequests' =
                [detailRequests EXCEPT ![Head(downloadQueue).id] = @ + 1])
     /\ (pc = "ffill" /\ FileCanStart) =>
          (FileDequeued /\ fileInProgress' = fileInProgress \cup {Head(queue)})
     /\ (pc \in {"fill", "sleep", "race"} /\ downloadQueue' # downloadQueue) => Dequeued
     /\ (pc \in {"ffill", "fsleep", "frace"} /\ queue' # queue) => FileDequeued]_vars

\* Two conversations queued, concurrency 2: the second was started after the
\* first, with the first still in flight, before any wait for a completion.
C32_Witness ==
  /\ options.concurrency = 2
  /\ pc = "fill"
  /\ downloadQueue = <<>>
  /\ inProgress = {1, 2}
  /\ completed = 0
  /\ detailRequests = [c \in ConvIds |-> 1]

\* The failure of the item was recorded by this step: failed + 1, the file
\* identifier appended once, the error observer called once with it.
FailureRecorded ==
  /\ stats' = [stats EXCEPT !.failed = @ + 1]
  /\ dlFailedFileIds' = Append(dlFailedFileIds, dlRef.fileId)
  /\ onErrorCalls' = Append(onErrorCalls, dlRef.fileId)

\* C33: a resolve response without a usable download URL fails the item
\* with no fetch request issued; a failure of the resolve step or of the
\* fetch step adds one to failed, appends the file identifier once and
\* calls the error observer once with it, and nothing is recorded while a
\* step is retried.
C33_StepFailureRecordedOnce ==
  [][/\ (dlPc = "resolve" /\ meta' # None /\ ~StringTruthy(meta'.download_url)) =>
          (dlPc' = "done" /\ FailureRecorded /\ requests' = requests
             /\ requests.fetch = 0)
     /\ (dlPc \in {"resolve", "fetch"} /\ dlPc' = "done") =>
          (FailureRecorded /\ fileDir' = fileDir /\ written' = None)
     /\ (dlPc \in {"resolve", "fetch"} /\ dlPc' # "done") =>
          (stats' = stats /\ dlFailedFileIds' = dlFailedFileIds
             /\ onErrorCalls' = onErrorCalls)]_vars

\* The resolve request was answered without a download URL: the item failed.
C33_Witness ==
  /\ dlPc = "done"
  /\ meta # None
  /\ meta.download_url = ""
  /\ requests = [resolve |-> 1, fetch |-> 0]
  /\ stats = [downloaded |-> 0, skipped |-> 0, failed |-> 1]
  /\ dlFailedFileIds = <<dlRef.fileId>>
  /\ onErrorCalls = <<dlRef.fileId>>

\* The worker that completed in this step failed with this error.
FailedWith(kinds) ==
  /\ Len(errors') = Len(errors) + 1
  /\ errors'[Len(errors')].error \in kinds

\* C34: a worker whose detail download failed (network after the retries,
\* authentication, validation) leaves every conversation file as it was; a
\* conversation file changes only in a step whose download and validation
\* succeeded (or at an interruption of such a write), and then only the
\* file of that conversation.
C34_FailedDownloadKeepsCopy ==
  [][/\ FailedWith({"network", "auth", "validation"}) =>
          conversationFiles' = conversationFiles
     /\ conversationFiles' # conversationFiles =>
          (\/ pc' = "interrupted"
           \/ downloaded' = downloaded + 1
           \/ FailedWith({"storage_partial"}))
     /\ \A id \in ConvIds :
          (conversationFiles'[id] # conversationFiles[id]
             /\ conversationFiles'[id].kind = "detail") =>
            (/\ downloaded' = downloaded + 1
             /\ id \in inProgress
             /\ conversationFiles'[id] = Detail(serverDetail[id]))]_vars

\* A second run, not incremental: the download of conversation 1 failed and
\* the copy the first run stored is still there.
C34_Witness ==
  /\ runs = 2
  /\ ~options.incremental
  /\ errors = <<[conversationId |-> 1, error |-> "validation"]>>
  /\ failed = 1
  /\ inProgress = {}
  /\ conversationFiles[1] = Detail(serverDetail[1])

NoDetailRequest == detailRequests = [c \in ConvIds |-> 0]

\* C35: in a run the index is written once, by the step that ends the
\* listing and before any detail request; the skip decisions are all taken
\* in the step that follows, before the first worker starts; the metadata
\* is written once, by the step that leaves the scheduling loop with the
\* queue empty and every started worker completed, and a run that returns
\* has written both.
C35_IndexDiffWorkersMetadata ==
  [][/\ pc' = "start" => runs' = runs + 1
     /\ pc' = "diff" =>
          (/\ pc = "start"
           /\ conversations' = serverList
           /\ indexFile' = Index(conversations')
           /\ NoDetailRequest')
     /\ pc # "start" => indexFile' = indexFile
     /\ pc = "diff" =>
          (/\ NoDetailRequest /\ inProgress = {}
           /\ pc' \in {"fill", "interrupted"}
           /\ pc' = "fill" =>
                (/\ skipped' + Len(downloadQueue') = Len(conversations)
                 /\ \A i \in 1..Len(downloadQueue') : ~IsSkipped(downloadQueue'[i])
                 /\ NoDetailRequest'))
     /\ pc \notin {"start", "diff"} => skipped' = skipped
     /\ detailRequests' # detailRequests => pc \in {"start", "fill"}
     /\ metadataFile' # metadataFile =>
          (/\ pc = "fill"
           /\ pc' \in {"returned", "aborted"}
           /\ downloadQueue = <<>>
           /\ inProgress = {}
           /\ completed = Len(conversations))
     /\ pc' = "returned" =>
          (/\ pc = "fill"
           /\ downloadQueue = <<>>
           /\ inProgress = {}
           /\ completed = Len(conversations)
           /\ indexFile = Index(conversations)
           /\ metadataFile' = [kind |-> "metadata", failedFiles |-> Absent])
     /\ pc \in {"returned", "aborted", "interrupted"} =>
          <<conversationFiles, indexFile, metadataFile>>' =
            <<conversationFiles, indexFile, metadataFile>>]_vars

\* A first run that returned: two conversations listed and indexed, both
\* downloaded, then the metadata written.
C35_Witness ==
  /\ runs = 1
  /\ pc = "returned"
  /\ Len(conversations) = 2
  /\ indexFile = Index(serverList)
  /\ downloaded = 2
  /\ inProgress = {}
  /\ metadataFile = [kind |-> "metadata", failedFiles |-> Absent]

InLoop == pc \in {"fill", "sleep", "race"}
InFileLoop == pc \in {"ffill", "fsleep", "frace"}

\* C36: with a concurrency limit >= 1 the scheduling loop, once entered, is
\* left only with the queue empty and no task in flight, the run then
\* returning its result (unless writing the metadata fails); until then the
\* queue only shrinks, and every worker that completes leaves the in-flight
\* set.
C36_LoopExitsAndReturns ==
  [][/\ (InLoop /\ ~InLoop' /\ pc' # "interrupted") =>
          (/\ downloadQueue = <<>>
           /\ inProgress = {}
           /\ completed = Len(conversations)
           /\ pc' = "returned" => result'.kind = "result")
     /\ (InFileLoop /\ ~InFileLoop') =>
          (/\ queue = <<>>
           /\ fileInProgress = {}
           /\ fileCompleted = Len(refs)
           /\ pc' = "exited"
           /\ fileResult'.kind = "result")
     /\ (InLoop /\ InLoop') =>
          (/\ Len(downloadQueue') <= Len(downloadQueue)
           /\ completed' = completed + 1 =>
                Cardinality(inProgress') = Cardinality(inProgress) - 1)
     /\ (InFileLoop /\ InFileLoop') =>
          (/\ Len(queue') <= Len(queue)
           /\ fileCompleted' = fileCompleted + 1 =>
                Cardinality(fileInProgress') = Cardinality(fileInProgress) - 1)]_vars

\* The loop has an item pending and a concurrency limit below 1.
Stalled == pc = "fill" /\ options.concurrency < 1 /\ downloadQueue # <<>>
FileStalled == pc = "ffill" /\ options.concurrency < 1 /\ queue # <<>>

\* C37: with a concurrency limit below 1 and an item pending the loop
\* starts no worker, never suspends and is never left (the process can only
\* be interrupted): no request is issued, nothing is in flight, nothing
\* completes, and no result is returned.
C37_LimitBelowOneNeverExits ==
  [][/\ Stalled =>
          (/\ pc' = "interrupted"
           /\ UNCHANGED <<disk, backupState, fileLocals>>
           /\ inProgress = {}
           /\ NoDetailRequest
           /\ completed = skipped
           /\ result = None)
     /\ FileStalled =>
          (/\ UNCHANGED vars
           /\ fileInProgress = {}
           /\ fileRequests = [f \in FileIds |-> 0]
           /\ fileCompleted = 0
           /\ fileResult = None)
     /\ options.concurrency < 1 =>
          (/\ pc' \notin {"sleep", "race", "fsleep", "frace"}
           /\ inProgress' = {}
           /\ fileInProgress' = {}
           /\ pc' = "returned" => result'.downloaded + result'.failed = 0
           /\ (pc' = "exited" /\ pc = "ffill") => refs = <<>>)]_vars

\* Concurrency 0 and two conversations to download: the loop spins.
C37_Witness ==
  /\ options.concurrency = 0
  /\ pc = "fill"
  /\ Len(downloadQueue) = 2
  /\ inProgress = {}
  /\ NoDetailRequest
  /\ result = None

\* C38: the completion of a dequeued conversation adds one to exactly one
\* of downloaded and failed and one to completed; the counters change in no
\* other step of the scheduling loop.
C38_OneCounterPerItem ==
  [][InLoop =>
       (/\ completed' \in {completed, completed + 1}
        /\ completed' = completed + 1 =>
             (/\ downloaded' + failed' = downloaded + failed + 1
              /\ downloaded' >= downloaded
              /\ failed' >= failed
              /\ \E id \in inProgress : id \notin inProgress' \/ id \in rejected')
        /\ completed' = completed => (downloaded' = downloaded /\ failed' = failed))]_vars

\* The collection holds N summaries throughout the listing: every response
\* reports the total N and returns, from its offset on, at least one and at
\* most limit of the summaries that are there.
StableCollection(N) ==
  /\ Len(listResponses) = Len(listRequests)
  /\ \A i \in 1..Len(listResponses) :
       /\ listResponses[i].total = N
       /\ listResponses[i].count <= listOptions.limit
       /\ listRequests[i] + listResponses[i].count <= N
       /\ listRequests[i] < N => listResponses[i].count >= 1

\* C39: fetchAllConversations, consumed to its end against a stable
\* collection of N summaries, has yielded the summaries 1 .. N, each once,
\* in the server's order, whatever the length of the pages.
C39_EveryItemOnce ==
  \A N \in 0..MaxTotal :
    (/\ lister = "fetchAllConversations"
     /\ listPc = "returned"
     /\ StableCollection(N)) => listed = [i \in 1..N |-> i]

\* C40: whenever the progress callback of downloadFiles is called, the
\* completed it passes is downloaded + skipped + failed as it passes them;
\* from one call to the next completed grows by one, exactly one of the
\* three counters grows by one and none decreases.
C40_ProgressMatchesCounters ==
  [][InFileLoop =>
       (/\ fileCompleted = fileDownloaded + fileSkipped + fileFailed
        /\ fileCompleted' = fileDownloaded' + fileSkipped' + fileFailed'
        /\ fileDownloaded' >= fileDownloaded
        /\ fileSkipped' >= fileSkipped
        /\ fileFailed' >= fileFailed
        /\ fileInProgress' # fileInProgress =>
             (\/ FileDequeued
              \/ /\ fileCompleted' = fileCompleted + 1
                 /\ Cardinality(fileInProgress') = Cardinality(fileInProgress) - 1)
        /\ fileCompleted' # fileCompleted =>
             (fileCompleted' = fileCompleted + 1 /\ fileInProgress' # fileInProgress))]_vars

\* Two files in flight: the one started second failed first, while the one
\* started first is still in flight.
C40_Witness ==
  /\ options.concurrency = 2
  /\ pc = "frace"
  /\ Len(refs) = 2
  /\ fileInProgress = {refs[1]}
  /\ fileCompleted = 1
  /\ fileFailed = 1
  /\ fileDownloaded = 0
  /\ fileSkipped = 0

====
